---- MODULE Spec2Model ----
(***************************************************************************)
(* Model of the authentication core of abhishek-backend: the User, Session *)
(* documents in MongoDB and the Express handlers that read and write them. *)
(*                                                                         *)
(* A handler is split at its awaits on the database: between two of them   *)
(* another request may run.  Every request works on the Mongoose document  *)
(* it loaded (doc, sdoc), which is a snapshot: updateOne() writes the      *)
(* database and leaves the loaded document as it was.                      *)
(*                                                                         *)
(* The model covers the User, Session, Device and SecurityLog collections. *)
(* Left out: the User fields lastLogin and lastLoginIP and the Device      *)
(* fields lastUsed and deviceName, which no decision reads; the username  *)
(* of register; the texts of the emails.  The specifications of the        *)
(* lockout, the sessions, two-factor, the passwords and the devices run    *)
(* with a security log that takes no row; the log is studied in SpecRisk,  *)
(* SpecRiskLogin, SpecChange, SpecNotify, SpecAudit and SpecMono,          *)
(* checkPasswordStrength alone in SpecStrength.  SpecMono and              *)
(* SpecIsolation start beside the rows of a second account.                *)
(* used is history the program does not keep: the hashes a user had.       *)
(*                                                                         *)
(* Time.  now is the clock in abstract units of Date resolution.  A JWT    *)
(* carries iat in whole seconds: SecLen clock units make one second.  The  *)
(* durations of the program (lockout, token lifetimes, the windows of the  *)
(* risk score) are each a small number of units, not in proportion.        *)
(* bcrypt at cost 12 (User.ts:114) takes far longer than one unit of Date  *)
(* resolution, so the clock read after comparePassword is later than the   *)
(* one read before it.                                                     *)
(***************************************************************************)
EXTENDS Integers, Sequences, FiniteSets, TLC

\* ------------------------------------------------------------------ bounds
NumProcs == 2          \* requests in flight at once
MaxTime == 10          \* the clock's last value, lockout, one request at a time
MaxTimeConc == 7       \* the clock's last value, lockout, interleaved requests
MaxTimeSessConc == 6   \* the clock's last value, sessions, interleaved requests
MaxTimeSess == 7       \* the clock's last value, sessions, one request at a time
MaxTime2FA == 4        \* the clock's last value, two-factor
MaxSessions == 2       \* session rows ever created
MaxResetTokens == 1    \* password-reset tokens ever issued
MaxSecrets == 2        \* two-factor secrets ever generated
SecLen == 2            \* clock units per JWT second
HourLen == 3           \* clock units per hour of the day
MaxTime2FASeq == 5     \* the clock's last value, two-factor, one request at a time
MaxTimeDev == 4        \* the clock's last value, devices
MaxTimeRisk == 9       \* the clock's last value, risk scoring
MaxSuspicions == 1     \* the rows the security log takes more, risk scoring
MaxTimeNotify == 3     \* the clock's last value, notifications and log
MaxLogs == 2           \* the rows the security log takes, notifications and log
MaxVerifyTokens == 2   \* email verification tokens generated
MaxTimePwd == 5        \* the clock's last value, passwords
MaxTimeExpired == 4    \* the clock's last value, expired lock
MaxTimeLocked == 5     \* the clock's last value, locked account
MaxTimeRiskLogin == 9  \* the clock's last value, risk scoring of logins
MaxTimeChange == 4     \* the clock's last value, scoring of password changes
MaxLogsChange == 3     \* the rows the security log takes, scoring of password changes
MaxTimeReset == 5      \* the clock's last value, password reset, interleaved requests
MaxTimeMono == 3       \* the clock's last value, sessions with the security log, interleaved
MaxLogsMono == 1       \* rows the security log takes there
MaxRun == 4            \* characters of one class in a typed password
MaxTimeAudit == 6      \* the clock's last value, audit of sessions and devices
MaxLogsAudit == 1      \* the rows the security log takes, audit

\* ------------------------------------------------- program constants
maxAttempts == 5       \* MAX_LOGIN_ATTEMPTS default
lockTime == 2          \* LOCKOUT_TIME, 30 minutes, in clock units
ResetTokenTTL == 3     \* 60 * 60 * 1000 ms, in clock units
RefreshExpiry == 2     \* JWT_REFRESH_EXPIRY '7d', in JWT seconds
AccessExpiry == 1      \* JWT_ACCESS_EXPIRY '15m', in JWT seconds
NumBackupCodes == 10   \* Array.from({ length: 10 })
VerifyTokenTTL == 4    \* 24 * 60 * 60 * 1000 ms, in clock units
FailureWindow == 1     \* 15 * 60 * 1000 ms, in clock units
ChangeWindow == 4      \* 24 * 60 * 60 * 1000 ms, in clock units
ActivityWindow == 5    \* 7 * 24 * 60 * 60 * 1000 ms, in clock units
HistoryWindow == 6     \* 30 * 24 * 60 * 60 * 1000 ms, in clock units
HistoryLimit == 10     \* .limit(10) of checkSuspiciousLogin
ActivityLimit == 5     \* .limit(5) of checkSuspiciousPasswordChange
SessionDays == RefreshExpiry * SecLen   \* setDate(getDate() + 7): the same 7 days

Procs == 1 .. NumProcs
UserIds == {"u1"}
Emails == UserIds \cup {"nobody"}    \* the address of each user, and one of no user
MailOutcomes == {"sent", "throws"}   \* what transporter.sendMail() does
InitialPassword == "Tr0ub4dor&3!XY"
Passwords == {InitialPassword, "C0rrect-Horse9"}
NoDate == 0            \* an unset Date field
NoId == 0              \* an unset token or secret
NoUser == "undefined"  \* req.user?._id when req.user was never set
NoToken == [userId |-> NoUser, iat |-> 0]   \* no JWT in the request
NoLocation == [country |-> "null", city |-> "null"]   \* no location known

\* ------------------------------------------------------------ devices
\* A User-Agent header is the sequence of the product tokens in it;
\* userAgent.includes(s) looks the token s up.
ChromeWindows == <<"Mozilla/5.0", "Windows", "Chrome", "Safari">>
FirefoxWindows == <<"Mozilla/5.0", "Windows", "Firefox">>
SafariIPhone == <<"Mozilla/5.0", "iPhone", "Mac OS", "Mobile", "Safari">>
UserAgents == {ChromeWindows, FirefoxWindows, SafariIPhone}
Desktops == {ChromeWindows, FirefoxWindows}
OfficeIP == "203.0.113.7"
HomeIP == "192.168.1.5"
IPs == {OfficeIP, HomeIP}

B(b, n) == IF b THEN n ELSE 0        \* a term of a score

includes(ua, s) == \E i \in 1 .. Len(ua) : ua[i] = s

\* parseDeviceInfo(req), given the two headers it reads
parseDeviceInfo(ua, ip) ==
  [ userAgent |-> ua,
    ipAddress |-> ip,
    browser |->
      IF includes(ua, "Chrome") /\ ~includes(ua, "Edg") THEN "Chrome"
      ELSE IF includes(ua, "Firefox") THEN "Firefox"
      ELSE IF includes(ua, "Safari") /\ ~includes(ua, "Chrome") THEN "Safari"
      ELSE IF includes(ua, "Edg") THEN "Edge"
      ELSE IF includes(ua, "Opera") THEN "Opera"
      ELSE "Unknown",
    os |->
      IF includes(ua, "Windows") THEN "Windows"
      ELSE IF includes(ua, "Mac OS") THEN "macOS"
      ELSE IF includes(ua, "Linux") THEN "Linux"
      ELSE IF includes(ua, "Android") THEN "Android"
      ELSE IF includes(ua, "iOS") THEN "iOS"
      ELSE "Unknown",
    deviceType |->
      IF \E s \in {"Mobile", "Android", "iPhone", "iPad"} : includes(ua, s)
      THEN IF \E s \in {"iPad", "Tablet"} : includes(ua, s) THEN "tablet" ELSE "mobile"
      ELSE "desktop" ]

\* generateDeviceId: the first 32 hex digits of sha256(`${userAgent}-${ipAddress}`).
\* Two inputs of the model have one digest only if they are the same string.
generateDeviceId(info) == <<"sha256", info.userAgent, "-", info.ipAddress>>
NoDevice == <<"sha256">>
NoDeviceDoc ==
  [ userId |-> "undefined", deviceId |-> NoDevice, deviceType |-> "unknown", browser |-> "Unknown",
    os |-> "Unknown", ipAddress |-> "", isTrusted |-> FALSE ]
DeviceIds == {generateDeviceId(parseDeviceInfo(ua, ip)) : ua \in Desktops, ip \in IPs}

\* getLocationFromIP: 'Local' for a loopback or private address, null otherwise
getLocationFromIP(ip) ==
  IF ip \in {"127.0.0.1", "::1", HomeIP}
  THEN [country |-> "Local", city |-> "Local Network"]
  ELSE NoLocation

VARIABLES
  now,        \* the clock
  horizon,    \* where the clock stops
  user,       \* User collection: [UserIds -> document]
  sessions,   \* Session collection: set of rows
  nextSid,    \* next Session _id
  nextReset,  \* next password-reset token (crypto.randomBytes)
  nextSecret, \* next two-factor secret (speakeasy.generateSecret)
  issued,     \* the token pairs handed to clients
  pc,         \* [Procs -> position of the request in its handler]
  req,        \* [Procs -> request body and headers]
  doc,        \* [Procs -> the User document the request loaded]
  sdoc,       \* [Procs -> the Session document the request loaded]
  ddoc,       \* [Procs -> the Device document the request loaded]
  resp,       \* [Procs -> the response sent]
  recorded,   \* [UserIds -> failures an atomic recordFailure would have stored]
  devices,    \* Device collection: set of rows
  logs,       \* SecurityLog collection: the rows in the order of their creation
  logCap,     \* the number of rows the SecurityLog collection takes
  enrich,     \* the location lookups of logSecurityEvent not yet applied
  nextVerify, \* next email-verification token (crypto.randomBytes)
  registered, \* the User documents register created
  used        \* [UserIds -> the password hashes the user had before]

vars == <<now, horizon, user, sessions, nextSid, nextReset, nextSecret, issued,
          pc, req, doc, sdoc, ddoc, resp, recorded, devices, logs, logCap, enrich, nextVerify,
          registered, used>>

\* ------------------------------------------------------------- values
Sec(t) == t \div SecLen                 \* Math.floor(Date.now() / 1000)

hash(pw) == <<"bcrypt", pw>>            \* bcrypt.hash in the pre-save hook
NoPassword == <<"undefined", "">>       \* password is select: false

NoArray == [has |-> FALSE, codes |-> <<>>]     \* an array path that is undefined
Array(s) == [has |-> TRUE, codes |-> s]

\* A two-factor token as typed by the client: six digits (a TOTP code, valid
\* for secret val, or for none when val = NoId) or eight hex characters (a
\* backup code), or absent.
NoTwoFactor == [kind |-> "none", val |-> NoId]
Totp(s) == [kind |-> "digits6", val |-> s]
Backup(c) == [kind |-> "hex8", val |-> c]

\* The backup codes with one code less.
BackupCodesOfShort(g) == [i \in 1 .. NumBackupCodes - 1 |-> g * 100 + i]

\* The backup codes generated with secret g: 10 codes of 8 hex characters.
BackupCodesOf(g) == [i \in 1 .. NumBackupCodes |-> g * 100 + i]

NewUser(pw) ==
  [ password |-> hash(pw), loginAttempts |-> 0, lockUntil |-> NoDate,
    isLocked |-> FALSE, twoFactorEnabled |-> FALSE, twoFactorSecret |-> NoId,
    backupCodes |-> Array(<<>>), passwordResetToken |-> NoId,
    passwordResetExpires |-> NoDate, v |-> 0,
    isEmailVerified |-> FALSE, emailVerificationToken |-> 1,
    emailVerificationExpires |-> VerifyTokenTTL ]

NoDoc == [NewUser("") EXCEPT !.password = NoPassword]
NoSession ==
  [ id |-> NoId, userId |-> NoUser, refreshToken |-> NoToken,
    isActive |-> FALSE, expiresAt |-> NoDate, lastActivity |-> NoDate,
    deviceInfo |-> parseDeviceInfo(<<>>, "") ]
NoReq ==
  [ op |-> "none", email |-> NoUser, password |-> "", twoFactorToken |-> NoTwoFactor,
    refreshToken |-> NoToken, accessToken |-> NoToken, resetToken |-> NoId,
    userId |-> NoUser, sessionId |-> NoId, newPassword |-> "",
    userAgent |-> ChromeWindows, ipAddress |-> OfficeIP,   \* the headers
    deviceId |-> NoDevice,                                 \* req.params.deviceId
    candidate |-> [shape |-> [upper |-> 0, lower |-> 0, digit |-> 0, special |-> 0, other |-> 0],
                   listed |-> FALSE],                      \* the password of /check-password
    raced |-> FALSE,      \* another request with the same credential was in flight
    unused |-> FALSE,     \* the backup code presented was among the stored ones
    resolved |-> FALSE ]  \* a live session held the presented refresh token
NoResp ==
  [ status |-> "none", refreshToken |-> NoToken,
    intended |-> "none",    \* the status the handler sends after its last call returns
    logWrite |-> "none",    \* what became of the SecurityLog.create of the request
    mail |-> "none",        \* what became of the email the request sent
    strength |-> [score |-> 0, strength |-> "none"],   \* what checkPasswordStrength returned
    risk |-> [isSuspicious |-> FALSE, riskScore |-> 0, reached |-> FALSE] ]
                            \* what checkSuspiciousLogin returned

\* The request goes on to step l of its handler.
Goto(p, l) ==
  /\ pc' = [pc EXCEPT ![p] = l]
  /\ resp' = [resp EXCEPT ![p] = NoResp]

\* The response is sent; the loaded documents are dropped.
Finish(p, st, tok) ==
  /\ pc' = [pc EXCEPT ![p] = "idle"]
  /\ resp' = [resp EXCEPT ![p] =
       [NoResp EXCEPT !.status = st, !.refreshToken = tok, !.intended = st]]
  /\ doc' = [doc EXCEPT ![p] = NoDoc]
  /\ sdoc' = [sdoc EXCEPT ![p] = NoSession]
  /\ ddoc' = [ddoc EXCEPT ![p] = NoDeviceDoc]

\* ------------------------------------------------------- security log
\* The values of action the SecurityLog schema accepts.
LogActions ==
  { "login", "logout", "register", "password_change", "password_reset",
    "email_verification", "2fa_enabled", "2fa_disabled", "2fa_verified",
    "session_created", "session_revoked", "suspicious_activity", "account_locked",
    "profile_update" }

\* The entry logSecurityEvent(userId, email, action, req, status, details) builds.
Event(userId, action, status, details, ua, ip) ==
  [ userId |-> userId, email |-> userId, action |-> action, status |-> status,
    details |-> details, ipAddress |-> ip, userAgent |-> ua,
    location |-> NoLocation, createdAt |-> now, updatedAt |-> now ]

\* What can become of SecurityLog.create(ev): validation refuses an action
\* outside the enum; the database may fail, and takes logCap rows.
WriteOutcomes(L, ev) ==
  IF ev.action \notin LogActions THEN {"invalid"}
  ELSE IF Len(L) < logCap THEN {"ok", "fails"} ELSE {"fails"}

\* logSecurityEvent without its try/catch: a failed write throws.
logSecurityEventThrowing(L, ev, w) ==
  [ logs |-> IF w = "ok" THEN Append(L, ev) ELSE L,
    threw |-> w # "ok" ]

\* logSecurityEvent: try { await SecurityLog.create(logEntry) } catch { console.error }
logSecurityEvent(L, ev, w) ==
  [ logs |-> IF w = "ok" THEN Append(L, ev) ELSE L,
    threw |-> FALSE ]

\* getLocationFromRequest(req).then(...): the lookup that logSecurityEvent
\* starts and does not wait for; with a location it updates the latest entry
\* of the same user, action and address.
Lookup(ev) ==
  IF getLocationFromIP(ev.ipAddress) = NoLocation THEN {}
  ELSE {[ userId |-> ev.userId, action |-> ev.action, ipAddress |-> ev.ipAddress,
          location |-> getLocationFromIP(ev.ipAddress) ]}

\* The rows the filter of the update finds at time t:
\* { userId, action, ipAddress, createdAt: { $gte: Date.now() - 1000 } }
enrichable(L, k, t) ==
  {i \in 1 .. Len(L) :
     /\ L[i].userId = k.userId /\ L[i].action = k.action /\ L[i].ipAddress = k.ipAddress
     /\ L[i].createdAt >= t - SecLen}

\* { sort: { createdAt: -1 } }: the latest of the rows found
latest(L, found) ==
  CHOOSE i \in found :
    \A j \in found : L[j].createdAt < L[i].createdAt \/ (L[j].createdAt = L[i].createdAt /\ j <= i)

\* An update that replaces the row found by a new one.
setLocationReplacing(L, k, t) ==
  IF enrichable(L, k, t) = {} THEN L
  ELSE [L EXCEPT ![latest(L, enrichable(L, k, t))] =
          [ userId |-> k.userId, email |-> k.userId, action |-> k.action, status |-> "success",
            details |-> "", ipAddress |-> k.ipAddress, userAgent |-> <<>>,
            location |-> k.location, createdAt |-> t, updatedAt |-> t ]]

\* SecurityLog.findOneAndUpdate(filter, { location }, { sort: { createdAt: -1 } });
\* the schema has timestamps, so the update also sets updatedAt.
setLocation(L, k, t) ==
  IF enrichable(L, k, t) = {} THEN L
  ELSE [L EXCEPT ![latest(L, enrichable(L, k, t))].location = k.location,
                 ![latest(L, enrichable(L, k, t))].updatedAt = t]

\* The handler calls logSecurityEvent(ev) and then sends st; an exception out
\* of logSecurityEvent lands in the catch of the handler, which sends 500.
\* m is what became of the emails the handler sent before, inside a try
\* whose catch only writes to the console.
\* The update of the lookup and the create are sent one after the other and
\* not awaited together: the update reaches the collection before the
\* create (early) or at some time after it.
FinishMailed(L, p, st, tok, ev, m) ==
  \E w \in WriteOutcomes(L, ev), early \in BOOLEAN :
    LET k == Lookup(ev)
        L0 == IF early /\ k # {} THEN setLocation(L, CHOOSE x \in k : TRUE, now) ELSE L
        r == logSecurityEvent(L0, ev, w)
    IN
      /\ logs' = r.logs
      /\ enrich' = IF early THEN enrich ELSE enrich \cup k
      /\ pc' = [pc EXCEPT ![p] = "idle"]
      /\ resp' = [resp EXCEPT ![p] =
           [NoResp EXCEPT !.status = IF r.threw THEN "error_500" ELSE st,
                          !.refreshToken = IF r.threw THEN NoToken ELSE tok,
                          !.intended = st,
                          !.logWrite = w,
                          !.mail = m]]
      /\ doc' = [doc EXCEPT ![p] = NoDoc]
      /\ sdoc' = [sdoc EXCEPT ![p] = NoSession]
      /\ ddoc' = [ddoc EXCEPT ![p] = NoDeviceDoc]

FinishLoggedFrom(L, p, st, tok, ev) == FinishMailed(L, p, st, tok, ev, "none")

\* ------------------------------------------------ suspicious activity
getHours(t) == (t \div HourLen) % 24
Abs(x) == IF x < 0 THEN -x ELSE x
RECURSIVE Sum(_, _)
Sum(f, S) == IF S = {} THEN 0 ELSE LET i == CHOOSE x \in S : TRUE IN f[i] + Sum(f, S \ {i})

\* SecurityLog.countDocuments({ userId, action: 'login', status: 'failure',
\*                               createdAt: { $gte: now - 15 min } })
recentFailures(L, u, t) ==
  Cardinality({i \in 1 .. Len(L) :
                 /\ L[i].userId = u /\ L[i].action = "login" /\ L[i].status = "failure"
                 /\ L[i].createdAt >= t - FailureWindow})

\* SecurityLog.find({ userId, action: 'login', status: 'success',
\*   createdAt: { $gte: now - 30 d } }).sort({ createdAt: -1 }).limit(10):
\* the positions in L of the rows found; of two rows of one createdAt the one
\* stored later comes first.
recentSuccessfulLogins(L, u, t) ==
  LET found == {i \in 1 .. Len(L) :
                  /\ L[i].userId = u /\ L[i].action = "login" /\ L[i].status = "success"
                  /\ L[i].createdAt >= t - HistoryWindow}
      Before(j, i) == L[j].createdAt > L[i].createdAt \/ (L[j].createdAt = L[i].createdAt /\ j > i)
  IN {i \in found : Cardinality({j \in found : Before(j, i)}) < HistoryLimit}

\* isSuspicious with the threshold at 60.
isSuspiciousAbove60(riskScore) == riskScore >= 60

\* const isSuspicious = riskScore >= 50
isSuspicious(riskScore) == riskScore >= 50

\* The score checkSuspiciousLogin computes for a login of user u, whose
\* stored document is d, from user agent ua and address ip at time t.
riskScore(L, d, u, ua, ip, t) ==
  LET recent == recentSuccessfulLogins(L, u, t)
      knownIPs == {L[i].ipAddress : i \in recent}
      knownUserAgents == {L[i].userAgent : i \in recent}
      location == getLocationFromIP(ip)
      recentCountries == {L[i].location.country : i \in {j \in recent : L[j].location # NoLocation}}
      loginHours == [i \in recent |-> getHours(L[i].createdAt)]
      n == Cardinality(recent)
  IN B(recentFailures(L, u, t) >= 3, 30)
     + B(ip \notin knownIPs /\ n > 0, 25)
     + B(ua \notin knownUserAgents /\ n > 0, 20)
     + B(location # NoLocation /\ location.country \notin recentCountries
           /\ recentCountries # {}, 30)
     + B(n > 5 /\ Abs(getHours(t) * n - Sum(loginHours, recent)) > 6 * n, 15)
     + B(d.isLocked \/ d.lockUntil # NoDate, 20)

\* The reasons checkSuspiciousLogin pushes, in the order it pushes them.
reasons(L, d, u, ua, ip, t) ==
  LET recent == recentSuccessfulLogins(L, u, t)
      knownIPs == {L[i].ipAddress : i \in recent}
      knownUserAgents == {L[i].userAgent : i \in recent}
      location == getLocationFromIP(ip)
      recentCountries == {L[i].location.country : i \in {j \in recent : L[j].location # NoLocation}}
      loginHours == [i \in recent |-> getHours(L[i].createdAt)]
      n == Cardinality(recent)
      R(b, r) == IF b THEN <<r>> ELSE <<>>
  IN R(recentFailures(L, u, t) >= 3, "Multiple failed login attempts in short time")
     \o R(ip \notin knownIPs /\ n > 0, "Login from new IP address")
     \o R(ua \notin knownUserAgents /\ n > 0, "Login from new device or browser")
     \o R(location # NoLocation /\ location.country \notin recentCountries
            /\ recentCountries # {}, "Login from new country: " \o location.country)
     \o R(n > 5 /\ Abs(getHours(t) * n - Sum(loginHours, recent)) > 6 * n,
          "Login outside normal hours")
     \o R(d.isLocked \/ d.lockUntil # NoDate, "Account was recently locked")

\* reasons.join(', ')
RECURSIVE join(_)
join(r) ==
  IF Len(r) = 0 THEN ""
  ELSE IF Len(r) = 1 THEN r[1]
  ELSE r[1] \o ", " \o join(Tail(r))

\* The entry with the details cut after the first reason.
SuspicionFirstReason(u, ua, ip) ==
  [Event(u, "suspicious_activity", "warning",
         "Suspicious login detected: "
           \o join(SubSeq(reasons(logs, user[u], u, ua, ip, now), 1, 1)), ua, ip)
     EXCEPT !.location = getLocationFromIP(ip)]

NoRisk == [isSuspicious |-> FALSE, riskScore |-> 0, reached |-> FALSE]

\* checkSuspiciousLogin(userId, req): what it returns when the write of the
\* suspicious_activity entry has the outcome w.  A write that fails throws
\* into the catch, which returns { isSuspicious: false, riskScore: 0 }.
checkSuspiciousLogin(L, d, u, ua, ip, t, w) ==
  LET total == riskScore(L, d, u, ua, ip, t) IN
    IF isSuspicious(total) /\ w # "ok" THEN NoRisk
    ELSE [isSuspicious |-> isSuspicious(total), riskScore |-> total, reached |-> TRUE]

\* The entry checkSuspiciousLogin creates: SecurityLog.create({ ..., location })
Suspicion(u, ua, ip) ==
  [Event(u, "suspicious_activity", "warning",
         "Suspicious login detected: "
           \o join(reasons(logs, user[u], u, ua, ip, now)), ua, ip)
     EXCEPT !.location = getLocationFromIP(ip)]

FinishLogged(p, st, tok, ev) == FinishLoggedFrom(logs, p, st, tok, ev)

\* SecurityLog.find({ userId, action: { $in: ['login', 'password_change'] },
\*   status: 'success', createdAt: { $gte: now - 7 d } }).sort({ createdAt: -1 }).limit(5)
recentActivity(L, u, t) ==
  LET found == {i \in 1 .. Len(L) :
                  /\ L[i].userId = u /\ L[i].action \in {"login", "password_change"}
                  /\ L[i].status = "success" /\ L[i].createdAt >= t - ActivityWindow}
      Before(j, i) == L[j].createdAt > L[i].createdAt \/ (L[j].createdAt = L[i].createdAt /\ j > i)
  IN {i \in found : Cardinality({j \in found : Before(j, i)}) < ActivityLimit}

\* The score of checkSuspiciousPasswordChange, and the entry it creates at 40.
riskScorePasswordChange(L, u, ip, t) ==
  LET recent == recentActivity(L, u, t) IN
    B(ip \notin {L[i].ipAddress : i \in recent} /\ recent # {}, 40)
    + B(\E i \in 1 .. Len(L) :
          /\ L[i].userId = u /\ L[i].action = "password_change"
          /\ L[i].createdAt >= t - ChangeWindow, 30)
SuspiciousChange(u, ua, ip) ==
  Event(u, "suspicious_activity", "warning", "Suspicious password change", ua, ip)

\* Neither an entry nor a lookup is added.
NoLog == UNCHANGED <<logs, enrich>>

\* --------------------------------------------------------- User model
\* The projections of the queries: password, twoFactorSecret and backupCodes
\* are select: false, and a path left out of the projection is undefined on
\* the loaded document.
selectDefault(u) ==
  [u EXCEPT !.password = NoPassword, !.twoFactorSecret = NoId, !.backupCodes = NoArray]
selectPassword(u) == [u EXCEPT !.twoFactorSecret = NoId, !.backupCodes = NoArray]
selectSecret(u) == [u EXCEPT !.password = NoPassword, !.backupCodes = NoArray]
selectSecretAndCodes(u) == [u EXCEPT !.password = NoPassword]
selectPasswordAndSecret(u) == [u EXCEPT !.backupCodes = NoArray]
selectPasswordAndCodes(u) == [u EXCEPT !.twoFactorSecret = NoId]

comparePassword(d, candidate) == hash(candidate) = d.password

\* isAccountLocked() with a lock that ends one clock unit early.
isAccountLockedEndingEarly(d, t) == d.lockUntil # NoDate /\ d.lockUntil > t + 1

isAccountLocked(d, t) == d.lockUntil # NoDate /\ d.lockUntil > t

\* incrementLoginAttempts() with the threshold compared by > instead of >=.
incrementLoginAttemptsLate(d, u, t) ==
  IF d.lockUntil # NoDate /\ d.lockUntil < t
  THEN [u EXCEPT !.loginAttempts = 1, !.lockUntil = NoDate, !.isLocked = FALSE]
  ELSE IF d.loginAttempts + 1 > maxAttempts /\ ~d.isLocked
       THEN [u EXCEPT !.loginAttempts = @ + 1, !.lockUntil = t + lockTime, !.isLocked = TRUE]
       ELSE [u EXCEPT !.loginAttempts = @ + 1]

\* The update incrementLoginAttempts() sends, applied to the stored
\* document u: the decision is taken on the loaded document d, $inc and
\* $set/$unset are applied by the database to u.
incrementLoginAttempts(d, u, t) ==
  IF d.lockUntil # NoDate /\ d.lockUntil < t
  THEN [u EXCEPT !.loginAttempts = 1, !.lockUntil = NoDate, !.isLocked = FALSE]
  ELSE IF d.loginAttempts + 1 >= maxAttempts /\ ~d.isLocked
       THEN [u EXCEPT !.loginAttempts = @ + 1, !.lockUntil = t + lockTime, !.isLocked = TRUE]
       ELSE [u EXCEPT !.loginAttempts = @ + 1]

\* resetLoginAttempts() without the $unset.
resetLoginAttemptsKeepingLock(u) == [u EXCEPT !.loginAttempts = 0]

resetLoginAttempts(u) ==
  [u EXCEPT !.loginAttempts = 0, !.lockUntil = NoDate, !.isLocked = FALSE]

\* What verify2FA writes: user.twoFactorEnabled = true
verify2FAUpdate(u) == [u EXCEPT !.twoFactorEnabled = TRUE]

\* What regenerateBackupCodes writes: user.backupCodes = backupCodes
regenerateUpdate(u, d) == [u EXCEPT !.backupCodes = d.backupCodes, !.v = @ + 1]

\* What disable2FA writes: twoFactorEnabled = false, twoFactorSecret and
\* backupCodes undefined
disable2FAUpdate(u) ==
  [u EXCEPT !.twoFactorEnabled = FALSE, !.twoFactorSecret = NoId, !.backupCodes = NoArray]

\* What recordFailure of the design stores when it is applied atomically to
\* the stored document: the count the failures add up to.
RecordedAfterFailure(u, n, t) ==
  IF u.lockUntil # NoDate /\ u.lockUntil < t THEN 1 ELSE n + 1

\* totp.verify that takes any six digits for a valid code.
totpVerifyLax(secret, tft) ==
  IF tft.kind # "digits6" THEN "invalid" ELSE "valid"

\* speakeasy.totp.verify({ secret, encoding: 'base32', token, window: 2 }):
\* a token that is not six digits long is refused before the secret is
\* read; decoding an undefined secret throws.
totpVerify(secret, tft) ==
  IF tft.kind # "digits6" THEN "invalid"
  ELSE IF secret = NoId THEN "throws"
  ELSE IF tft.val = secret THEN "valid" ELSE "invalid"

\* user.backupCodes.findIndex((code) => code === twoFactorToken)
findIndex(codes, tft) ==
  IF tft.kind = "hex8" /\ \E i \in 1 .. Len(codes) : codes[i] = tft.val
  THEN CHOOSE i \in 1 .. Len(codes) :
         codes[i] = tft.val /\ \A j \in 1 .. i - 1 : codes[j] # tft.val
  ELSE 0

\* user.backupCodes.splice(codeIndex, 1)
splice(codes, i) == [j \in 1 .. Len(codes) - 1 |-> IF j < i THEN codes[j] ELSE codes[j + 1]]

\* checkPasswordStrength: the requirements of the candidate passwords the
\* model uses, and the score and band computed from them.
Candidates == Passwords \cup {"password"}
requirements(pw) ==
  IF pw = "password"
  THEN [len |-> 8, uppercase |-> FALSE, lowercase |-> TRUE, number |-> FALSE,
        special |-> FALSE, common |-> FALSE]
  ELSE [len |-> 14, uppercase |-> TRUE, lowercase |-> TRUE, number |-> TRUE,
        special |-> TRUE, common |-> TRUE]
score(r) ==
  B(r.len >= 8, 20) + B(r.len >= 12, 10) + B(r.len >= 16, 10)
  + B(r.uppercase, 15) + B(r.lowercase, 15) + B(r.number, 15) + B(r.special, 15)
  + B(r.common, 10)
\* The bands without the weak one.
strengthFromFair(s) ==
  IF s < 60 THEN "fair" ELSE IF s < 80 THEN "good"
  ELSE IF s < 90 THEN "strong" ELSE "very-strong"

strength(s) ==
  IF s < 40 THEN "weak" ELSE IF s < 60 THEN "fair" ELSE IF s < 80 THEN "good"
  ELSE IF s < 90 THEN "strong" ELSE "very-strong"
checkPasswordStrength(pw) == strength(score(requirements(pw)))

\* A typed password, for the function alone: how many of its characters are
\* upper case letters, lower case letters, digits, characters of the class
\* of special characters, and others (a space, a letter outside A-Z), and
\* whether its lower case form is in the list of isCommonPassword.
Shapes ==
  [upper : 0 .. MaxRun, lower : 0 .. MaxRun, digit : 0 .. MaxRun,
   special : 0 .. MaxRun, other : 0 .. MaxRun]
length(c) == c.upper + c.lower + c.digit + c.special + c.other

\* The letters and digits of the entries of commonPasswords: 'password',
\* '12345678', '123456789', '1234567890', 'qwerty', 'abc123', 'password123',
\* 'admin', 'letmein', '1234567', ...
CommonShapes ==
  { <<8, 0>>, <<0, 8>>, <<0, 9>>, <<0, 10>>, <<6, 0>>, <<3, 3>>, <<8, 3>>, <<5, 0>>,
    <<7, 0>>, <<0, 7>> }
TypedPasswords ==
  { [shape |-> c, listed |-> l] : c \in Shapes, l \in BOOLEAN } \ 
  { [shape |-> c, listed |-> TRUE] :
      c \in {x \in Shapes : x.special # 0 \/ x.other # 0
                             \/ <<x.upper + x.lower, x.digit>> \notin CommonShapes} }

\* const requirements = { length, uppercase, lowercase, number, special, common }
requirementsOf(t) ==
  [ len |-> length(t.shape), uppercase |-> t.shape.upper > 0, lowercase |-> t.shape.lower > 0,
    number |-> t.shape.digit > 0, special |-> t.shape.special > 0, common |-> ~t.listed ]

\* jwt.sign(payload, secret, { expiresIn }): the payload and iat in seconds;
\* two tokens signed for one user within one second are the same string.
generateRefreshToken(u, t) == [userId |-> u, iat |-> Sec(t)]

\* jwt.verify: the signature is the server's and exp is in the future.
verifyRefreshToken(tok, t) == tok \in issued /\ Sec(t) < tok.iat + RefreshExpiry
\* A check of the access token that also asks for a live session of its user.
verifyAccessTokenWithSession(tok, t) ==
  /\ tok \in issued
  /\ Sec(t) < tok.iat + AccessExpiry
  /\ \E s \in sessions : s.userId = tok.userId /\ s.isActive

verifyAccessToken(tok, t) == tok \in issued /\ Sec(t) < tok.iat + AccessExpiry

\* The state after construction, with the clock at t, the rows L in the
\* security log, and the request r received (none when r is NoReq).
InitState(h, cap, t, L, r, D, usr) ==
  /\ horizon = h
  /\ logCap = cap
  /\ devices = D
  /\ logs = L
  /\ enrich = {}
  /\ nextVerify = 2
  /\ now = t
  /\ user = usr
  /\ sessions = {}
  /\ nextSid = 1
  /\ nextReset = 1
  /\ nextSecret = 1
  /\ issued = {}
  /\ pc = [p \in Procs |-> IF p = 1 /\ r # NoReq THEN r.op ELSE "idle"]
  /\ req = [p \in Procs |-> IF p = 1 THEN r ELSE NoReq]
  /\ doc = [p \in Procs |-> NoDoc]
  /\ sdoc = [p \in Procs |-> NoSession]
  /\ ddoc = [p \in Procs |-> NoDeviceDoc]
  /\ resp = [p \in Procs |-> NoResp]
  /\ recorded = [u \in UserIds |-> usr[u].loginAttempts]
  /\ registered = {}
  /\ used = [u \in UserIds |-> {}]

InitDevices(h, cap, t, L, r, D) ==
  InitState(h, cap, t, L, r, D, [u \in UserIds |-> NewUser(InitialPassword)])
InitReq(h, cap, t, L, r) == InitDevices(h, cap, t, L, r, {})

\* The specifications of the lockout, the sessions and the two-factor setup
\* leave the security log aside: its collection takes no row.
InitFrom(h, cap, t, L) == InitReq(h, cap, t, L, NoReq)
InitWith(h, cap) == InitFrom(h, cap, 1, <<>>)
InitAt(h) == InitWith(h, 0)

Tick ==
  /\ now < horizon
  /\ now' = now + 1
  /\ UNCHANGED <<horizon, logCap, registered, used, devices, nextVerify, user, sessions, nextSid, nextReset, nextSecret, issued,
                 pc, req, doc, sdoc, ddoc, resp, recorded, logs, enrich>>

\* ------------------------------------------------------------- login
\* User.findOne({ email }).select('+password')
LoginFrom(p, u, pw, tft, ua, ip) ==
  /\ pc[p] = "idle"
  /\ nextSid <= MaxSessions
  /\ Goto(p, "login_check")
  /\ req' = [req EXCEPT ![p] =
       [NoReq EXCEPT !.op = "login", !.email = u, !.password = pw, !.twoFactorToken = tft,
                     !.userAgent = ua, !.ipAddress = ip,
                     !.unused = (tft.kind = "hex8" /\ user[u].twoFactorEnabled /\
                                 \E i \in 1 .. Len(user[u].backupCodes.codes) :
                                    user[u].backupCodes.codes[i] = tft.val),
                     !.raced = (tft.kind = "hex8" /\
                                \E q \in Procs \ {p} :
                                   /\ req[q].op = "login"
                                   /\ pc[q] \in {"login_check", "login_2fa"}
                                   /\ req[q].email = u
                                   /\ req[q].twoFactorToken = tft)]]
  /\ doc' = [doc EXCEPT ![p] = selectPassword(user[u])]
  /\ UNCHANGED <<sdoc, ddoc>>
  /\ UNCHANGED <<now, horizon, logCap, registered, used, devices, nextVerify, user, sessions, nextSid, nextReset, nextSecret, issued, recorded, logs, enrich>>

\* a login from the browser and address of the office
LoginFind(p, u, pw, tft) == LoginFrom(p, u, pw, tft, ChromeWindows, OfficeIP)

\* The entry of a login: logSecurityEvent(String(user._id), user.email, 'login', req, ...)
LoginEvent(p, status, details) ==
  Event(req[p].email, "login", status, details, req[p].userAgent, req[p].ipAddress)

\* isAccountLocked() and comparePassword()
LoginCheck(p) ==
  /\ pc[p] = "login_check"
  /\ IF isAccountLocked(doc[p], now)
     THEN /\ FinishLogged(p, "locked", NoToken, LoginEvent(p, "failure", "Account locked"))
          /\ now' = now
     ELSE /\ now < horizon
          /\ now' = now + 1
          /\ Goto(p, IF comparePassword(doc[p], req[p].password)
                     THEN "login_2fa" ELSE "login_fail")
          /\ UNCHANGED <<doc, sdoc, ddoc>>
          /\ NoLog
  /\ UNCHANGED <<horizon, logCap, registered, used, devices, nextVerify, user, sessions, nextSid, nextReset, nextSecret, issued, req, recorded>>

\* await user.incrementLoginAttempts(); 401
LoginFail(p) ==
  /\ pc[p] = "login_fail"
  /\ LET u == req[p].email IN
       /\ user' = [user EXCEPT ![u] = incrementLoginAttempts(doc[p], user[u], now)]
       /\ recorded' = [recorded EXCEPT ![u] = RecordedAfterFailure(user[u], recorded[u], now)]
  /\ FinishLogged(p, "invalid_password", NoToken, LoginEvent(p, "failure", "Invalid password"))
  /\ UNCHANGED <<now, horizon, logCap, registered, used, devices, nextVerify, sessions, nextSid, nextReset, nextSecret, issued, req>>

\* the two-factor check, and the save() that spends a backup code
LoginTwoFactor(p) ==
  /\ pc[p] = "login_2fa"
  /\ LET d == doc[p]
         u == req[p].email
         tft == req[p].twoFactorToken
         isValidToken == totpVerify(d.twoFactorSecret, tft)
         codeIndex == IF d.backupCodes.has THEN findIndex(d.backupCodes.codes, tft) ELSE 0
     IN
       IF ~d.twoFactorEnabled \/ (tft.kind # "none" /\ isValidToken = "valid")
       THEN /\ Goto(p, "login_reset")
            /\ UNCHANGED <<user, doc, sdoc, ddoc>>
            /\ NoLog
       ELSE IF tft.kind = "none"
       THEN /\ Finish(p, "requires_2fa", NoToken)
            /\ user' = user
            /\ NoLog
       ELSE IF isValidToken = "throws"
       THEN /\ Finish(p, "error_500", NoToken)
            /\ user' = user
            /\ NoLog
       ELSE IF codeIndex # 0
       THEN \* save() of a modified array: where { __v }, $set the array, $inc __v
            IF user[u].v = d.v
            THEN /\ user' = [user EXCEPT ![u].backupCodes = Array(splice(d.backupCodes.codes, codeIndex)),
                                          ![u].v = @ + 1]
                 /\ doc' = [doc EXCEPT ![p].backupCodes = Array(splice(d.backupCodes.codes, codeIndex)),
                                        ![p].v = @ + 1]
                 /\ Goto(p, "login_reset")
                 /\ UNCHANGED <<sdoc, ddoc>>
                 /\ NoLog
            ELSE /\ Finish(p, "error_500", NoToken)
                 /\ user' = user
                 /\ NoLog
       ELSE /\ FinishLogged(p, "invalid_2fa", NoToken, LoginEvent(p, "failure", "Invalid 2FA token"))
            /\ user' = user
  /\ UNCHANGED <<now, horizon, logCap, registered, used, devices, nextVerify, sessions, nextSid, nextReset, nextSecret, issued, req, recorded>>

\* await user.resetLoginAttempts()
LoginReset(p) ==
  /\ pc[p] = "login_reset"
  /\ LET u == req[p].email IN
       /\ user' = [user EXCEPT ![u] = resetLoginAttempts(user[u])]
       /\ recorded' = [recorded EXCEPT ![u] = 0]
  /\ Goto(p, "login_session")
  /\ UNCHANGED <<now, horizon, logCap, registered, used, devices, nextVerify, sessions, nextSid, nextReset, nextSecret, issued, req, doc, sdoc, ddoc, logs, enrich>>

\* Device.findOneAndUpdate({ userId, deviceId }, { ...fields }, { upsert: true }):
\* the row of the device is written, or created with isTrusted at its default.
\* The upsert with isTrusted written as the schema default.
upsertDeviceDefaulting(D, u, info) ==
  LET id == generateDeviceId(info)
      old == {d \in D : d.userId = u /\ d.deviceId = id}
  IN (D \ old) \cup
     {[ userId |-> u, deviceId |-> id, deviceType |-> info.deviceType,
        browser |-> info.browser, os |-> info.os, ipAddress |-> info.ipAddress,
        isTrusted |-> FALSE ]}

upsertDevice(D, u, info) ==
  LET id == generateDeviceId(info)
      old == {d \in D : d.userId = u /\ d.deviceId = id}
  IN (D \ old) \cup
     {[ userId |-> u, deviceId |-> id, deviceType |-> info.deviceType,
        browser |-> info.browser, os |-> info.os, ipAddress |-> info.ipAddress,
        isTrusted |-> \E d \in old : d.isTrusted ]}

\* checkSuspiciousLogin(); generateTokenPair(user); the upsert of the device;
\* Session.create({ userId, refreshToken, deviceInfo, expiresAt }); the entry
\* of the login
LoginSession(p) ==
  /\ pc[p] = "login_session"
  /\ nextSid <= MaxSessions
  /\ LET u == req[p].email
         ua == req[p].userAgent
         ip == req[p].ipAddress
         info == parseDeviceInfo(ua, ip)
         tok == generateRefreshToken(u, now)
         suspicious == isSuspicious(riskScore(logs, selectDefault(user[u]), u, ua, ip, now))
     IN
       \E w \in IF suspicious THEN WriteOutcomes(logs, Suspicion(u, ua, ip)) ELSE {"none"} :
         LET L == IF w = "ok" THEN Append(logs, Suspicion(u, ua, ip)) ELSE logs IN
           /\ devices' = upsertDevice(devices, u, info)
           /\ IF \E s \in sessions : s.refreshToken = tok
              THEN \* E11000 on the unique index of refreshToken
                   /\ Finish(p, "error_500", NoToken)
                   /\ logs' = L
                   /\ UNCHANGED <<sessions, nextSid, issued, enrich>>
              ELSE /\ sessions' = sessions \cup
                          {[ id |-> nextSid, userId |-> u, refreshToken |-> tok,
                             isActive |-> TRUE, expiresAt |-> now + SessionDays,
                             lastActivity |-> now, deviceInfo |-> info ]}
                   /\ nextSid' = nextSid + 1
                   /\ issued' = issued \cup {tok}
                   /\ FinishLoggedFrom(L, p, "login_ok", tok,
                                       LoginEvent(p, "success", "User logged in successfully"))
  /\ UNCHANGED <<now, horizon, logCap, registered, used, nextVerify, user, nextReset, nextSecret, req, recorded>>

\* ----------------------------------------------------------- register
\* register for the address e with the password pw: User.findOne, the
\* strength of the password, User.create, the verification email in a try
\* whose catch only writes to the console, the entry, 201.  The username is
\* left out.
Register(p, e, pw) ==
  /\ pc[p] = "idle"
  /\ req' = [req EXCEPT ![p] = [NoReq EXCEPT !.op = "register", !.email = e, !.password = pw]]
  /\ IF e \in UserIds \/ e \in {r.email : r \in registered}
     THEN /\ Finish(p, "email_taken", NoToken)
          /\ UNCHANGED <<registered, nextVerify>>
          /\ NoLog
     ELSE IF checkPasswordStrength(pw) = "weak"
     THEN /\ Finish(p, "weak_password", NoToken)
          /\ UNCHANGED <<registered, nextVerify>>
          /\ NoLog
     ELSE /\ nextVerify <= MaxVerifyTokens
          /\ registered' = registered \cup
               {[ email |-> e, password |-> hash(pw), emailVerificationToken |-> nextVerify,
                  emailVerificationExpires |-> now + VerifyTokenTTL ]}
          /\ nextVerify' = nextVerify + 1
          /\ \E m \in MailOutcomes :
               FinishMailed(logs, p, "register_ok", NoToken,
                            Event(e, "register", "success", "User registered successfully",
                                  ChromeWindows, OfficeIP), m)
  /\ UNCHANGED <<now, horizon, logCap, used, devices, user, sessions, nextSid, nextReset, nextSecret, issued, recorded>>

\* ---------------------------------------------------- password reset
\* forgotPassword whose save() also clears the lockout.
forgotPasswordSaveUnlocking(u, tok, t) ==
  [u EXCEPT !.passwordResetToken = tok, !.passwordResetExpires = t + ResetTokenTTL,
            !.loginAttempts = 0, !.lockUntil = NoDate, !.isLocked = FALSE]

\* forgotPassword: user.passwordResetToken = ...; await user.save()
forgotPasswordSave(u, tok, t) ==
  [u EXCEPT !.passwordResetToken = tok, !.passwordResetExpires = t + ResetTokenTTL]

\* What forgotPassword answers to a known address when the email send has
\* the outcome m: the catch around sendPasswordResetEmail answers 500.
forgotPasswordAnswer(m) == IF m = "throws" THEN "mail_failed" ELSE "forgot_ok"

\* forgotPassword for the address e, the email send having the outcome m
ForgotPasswordWith(p, e, m) ==
  /\ pc[p] = "idle"
  /\ nextReset <= MaxResetTokens
  /\ req' = [req EXCEPT ![p] = [NoReq EXCEPT !.op = "forgotPassword", !.email = e]]
  /\ IF e \notin UserIds
     THEN /\ Finish(p, "forgot_ok", NoToken)
          /\ UNCHANGED <<user, nextReset>>
          /\ NoLog
     ELSE /\ user' = [user EXCEPT ![e] = forgotPasswordSave(user[e], nextReset, now)]
          /\ nextReset' = nextReset + 1
          /\ IF m = "throws"
             THEN /\ pc' = [pc EXCEPT ![p] = "idle"]
                  /\ resp' = [resp EXCEPT ![p] =
                       [NoResp EXCEPT !.status = forgotPasswordAnswer(m),
                                      !.intended = forgotPasswordAnswer("sent"),
                                      !.mail = m]]
                  /\ doc' = [doc EXCEPT ![p] = NoDoc]
                  /\ sdoc' = [sdoc EXCEPT ![p] = NoSession]
                  /\ ddoc' = [ddoc EXCEPT ![p] = NoDeviceDoc]
                  /\ NoLog
             ELSE FinishMailed(logs, p, forgotPasswordAnswer(m), NoToken,
                               Event(e, "password_reset", "success", "Password reset email sent",
                                     ChromeWindows, OfficeIP), m)
  /\ UNCHANGED <<now, horizon, logCap, registered, used, devices, nextVerify, sessions, nextSid, nextSecret, issued, recorded>>

ForgotPassword(p, e) == \E m \in MailOutcomes : ForgotPasswordWith(p, e, m)

\* User.findOne({ passwordResetToken, passwordResetExpires: { $gt: now } })
findByResetToken(tok, t) ==
  {u \in UserIds : user[u].passwordResetToken = tok /\ user[u].passwordResetExpires > t}

\* the checks of resetPassword up to comparePassword()
ResetFind(p, tok, pw) ==
  /\ pc[p] = "idle"
  /\ LET found == findByResetToken(tok, now)
         r == [NoReq EXCEPT !.op = "resetPassword", !.resetToken = tok, !.password = pw]
     IN
       IF found = {}
       THEN /\ Finish(p, "invalid_reset_token", NoToken)
            /\ req' = [req EXCEPT ![p] = r]
            /\ now' = now
       ELSE LET u == CHOOSE x \in found : TRUE IN
            /\ req' = [req EXCEPT ![p] = [r EXCEPT !.email = u]]
            /\ IF checkPasswordStrength(pw) = "weak"
               THEN /\ Finish(p, "weak_password", NoToken)
                    /\ now' = now
               ELSE /\ now < horizon
                    /\ now' = now + 1
                    /\ IF comparePassword(selectPassword(user[u]), pw)
                       THEN Finish(p, "same_password", NoToken)
                       ELSE /\ Goto(p, "reset_unlock")
                            /\ doc' = [doc EXCEPT ![p] = selectPassword(user[u])]
                            /\ UNCHANGED <<sdoc, ddoc>>
  /\ UNCHANGED <<horizon, logCap, registered, used, devices, nextVerify, user, sessions, nextSid, nextReset, nextSecret, issued, recorded, logs, enrich>>

\* await user.resetLoginAttempts()
ResetUnlock(p) ==
  /\ pc[p] = "reset_unlock"
  /\ LET u == req[p].email IN
       /\ user' = [user EXCEPT ![u] = resetLoginAttempts(user[u])]
       /\ recorded' = [recorded EXCEPT ![u] = 0]
  /\ Goto(p, "reset_save")
  /\ UNCHANGED <<now, horizon, logCap, registered, used, devices, nextVerify, sessions, nextSid, nextReset, nextSecret, issued, req, doc, sdoc, ddoc, logs, enrich>>

\* await user.save(): password, passwordResetToken, passwordResetExpires
ResetSave(p) ==
  /\ pc[p] = "reset_save"
  /\ LET u == req[p].email IN
       /\ user' = [user EXCEPT ![u].password = hash(req[p].password),
                               ![u].passwordResetToken = NoId,
                               ![u].passwordResetExpires = NoDate]
       /\ used' = [used EXCEPT ![u] = @ \cup {user[u].password}]
  /\ \E m1, m2 \in MailOutcomes :
       \* sendPasswordChangedEmail and sendSecurityAlertEmail, each in a try
       \* whose catch only writes to the console
       FinishMailed(logs, p, "reset_ok", NoToken,
                    Event(req[p].email, "password_reset", "success", "Password reset successfully",
                          req[p].userAgent, req[p].ipAddress),
                    IF "throws" \in {m1, m2} THEN "throws" ELSE "sent")
  /\ UNCHANGED <<now, horizon, logCap, registered, devices, nextVerify, sessions, nextSid, nextReset, nextSecret, issued, req, recorded>>

\* ------------------------------------------------- email verification
\* resendVerificationEmail: user.emailVerificationToken = ...; await user.save()
resendSave(u, tok, t) ==
  [u EXCEPT !.emailVerificationToken = tok, !.emailVerificationExpires = t + VerifyTokenTTL]

\* resendVerificationEmail for the address e
ResendVerificationEmail(p, e) ==
  /\ pc[p] = "idle"
  /\ req' = [req EXCEPT ![p] = [NoReq EXCEPT !.op = "resendVerificationEmail", !.email = e]]
  /\ IF e \notin UserIds
     THEN /\ Finish(p, "resend_generic", NoToken)
          /\ UNCHANGED <<user, nextVerify>>
          /\ NoLog
     ELSE IF user[e].isEmailVerified
     THEN /\ Finish(p, "already_verified", NoToken)
          /\ UNCHANGED <<user, nextVerify>>
          /\ NoLog
     ELSE /\ nextVerify <= MaxVerifyTokens
          /\ user' = [user EXCEPT ![e] = resendSave(user[e], nextVerify, now)]
          /\ nextVerify' = nextVerify + 1
          /\ \E m \in MailOutcomes :
               IF m = "throws"
               THEN \* the catch around sendVerificationEmail answers 500
                    /\ pc' = [pc EXCEPT ![p] = "idle"]
                    /\ resp' = [resp EXCEPT ![p] =
                         [NoResp EXCEPT !.status = "mail_failed", !.intended = "resend_ok",
                                        !.mail = m]]
                    /\ doc' = [doc EXCEPT ![p] = NoDoc]
                    /\ sdoc' = [sdoc EXCEPT ![p] = NoSession]
                    /\ ddoc' = [ddoc EXCEPT ![p] = NoDeviceDoc]
                    /\ NoLog
               ELSE FinishMailed(logs, p, "resend_ok", NoToken,
                                 Event(e, "email_verification", "success",
                                       "Verification email resent", ChromeWindows, OfficeIP), m)
  /\ UNCHANGED <<now, horizon, logCap, registered, used, devices, sessions, nextSid, nextReset, nextSecret, issued, recorded>>

\* verifyEmail with the token tok of the query
VerifyEmail(p, tok) ==
  /\ pc[p] = "idle"
  /\ req' = [req EXCEPT ![p] = [NoReq EXCEPT !.op = "verifyEmail", !.resetToken = tok]]
  /\ LET found == {u \in UserIds : /\ user[u].emailVerificationToken = tok
                                    /\ user[u].emailVerificationExpires # NoDate
                                    /\ user[u].emailVerificationExpires > now}
     IN IF found = {}
        THEN /\ Finish(p, "invalid_verification_token", NoToken)
             /\ UNCHANGED user
             /\ NoLog
        ELSE LET u == CHOOSE x \in found : TRUE IN
             IF user[u].isEmailVerified
             THEN /\ Finish(p, "already_verified_ok", NoToken)
                  /\ UNCHANGED user
                  /\ NoLog
             ELSE /\ user' = [user EXCEPT ![u].isEmailVerified = TRUE,
                                          ![u].emailVerificationToken = NoId,
                                          ![u].emailVerificationExpires = NoDate]
                  /\ FinishLogged(p, "verify_email_ok", NoToken,
                                  Event(u, "email_verification", "success",
                                        "Email verified successfully", ChromeWindows, OfficeIP))
  /\ UNCHANGED <<now, horizon, logCap, registered, used, devices, nextVerify, sessions, nextSid, nextReset, nextSecret, issued, recorded>>

\* The update a lookup of logSecurityEvent sends when it has its location.
EnrichLocation ==
  \E k \in enrich :
    /\ logs' = setLocation(logs, k, now)
    /\ enrich' = enrich \ {k}
    /\ UNCHANGED <<now, horizon, logCap, registered, used, devices, nextVerify, user, sessions, nextSid, nextReset,
                   nextSecret, issued, pc, req, doc, sdoc, ddoc, resp, recorded>>

\* ------------------------------------------------------ refresh token
\* The session lookup without the expiresAt condition.
findSessionIgnoringExpiry(tok, t) ==
  {s \in sessions : s.refreshToken = tok /\ s.isActive}

\* verifyRefreshToken(), then
\* Session.findOne({ refreshToken, isActive: true, expiresAt: { $gt: new Date() } })
findSession(tok, t) ==
  {s \in sessions : s.refreshToken = tok /\ s.isActive /\ s.expiresAt > t}

RefreshFind(p, tok) ==
  /\ pc[p] = "idle"
  /\ LET found == findSession(tok, now) IN
       /\ req' = [req EXCEPT ![p] =
            [NoReq EXCEPT !.op = "refreshToken", !.refreshToken = tok, !.userId = tok.userId,
                          !.resolved = \E s \in sessions :
                                          /\ s.refreshToken = tok
                                          /\ s.isActive
                                          /\ s.expiresAt > now,
                          !.raced = \E q \in Procs \ {p} :
                                       /\ req[q].op = "refreshToken"
                                       /\ pc[q] # "idle"
                                       /\ req[q].refreshToken = tok]]
       /\ IF ~verifyRefreshToken(tok, now)
          THEN Finish(p, "invalid_refresh_token", NoToken)
          ELSE IF found = {}
          THEN Finish(p, "session_invalid", NoToken)
          ELSE /\ Goto(p, "refresh_user")
               /\ sdoc' = [sdoc EXCEPT ![p] = CHOOSE s \in found : TRUE]
               /\ ddoc' = ddoc
               /\ doc' = doc
  /\ UNCHANGED <<now, horizon, logCap, registered, used, devices, nextVerify, user, sessions, nextSid, nextReset, nextSecret, issued, recorded, logs, enrich>>

\* User.findById(decoded.userId); isAccountLocked()
RefreshUser(p) ==
  /\ pc[p] = "refresh_user"
  /\ IF isAccountLocked(selectDefault(user[req[p].userId]), now)
     THEN Finish(p, "locked", NoToken)
     ELSE /\ Goto(p, "refresh_save")
          /\ UNCHANGED <<doc, sdoc, ddoc>>
  /\ UNCHANGED <<now, horizon, logCap, registered, used, devices, nextVerify, user, sessions, nextSid, nextReset, nextSecret, issued, req, recorded, logs, enrich>>

\* A save() that writes every path of the loaded document back.
refreshedSessionWhole(row, loaded, tok, t) ==
  [loaded EXCEPT !.refreshToken = tok, !.lastActivity = t]

\* A refresh that also renews the life of the session.
refreshedSessionSliding(row, loaded, tok, t) ==
  [row EXCEPT !.refreshToken = IF tok # loaded.refreshToken THEN tok ELSE @,
              !.lastActivity = t, !.expiresAt = t + SessionDays]

\* The row after session.save(): save() sends the modified paths only, here
\* refreshToken (when the new token differs) and lastActivity.
refreshedSession(row, loaded, tok, t) ==
  [row EXCEPT !.refreshToken = IF tok # loaded.refreshToken THEN tok ELSE @,
              !.lastActivity = t]

\* generateTokenPair(user); session.refreshToken = tokens.refreshToken;
\* session.lastActivity = new Date(); await session.save()
RefreshSave(p) ==
  /\ pc[p] = "refresh_save"
  /\ LET tok == generateRefreshToken(req[p].userId, now)
         rows == {s \in sessions : s.id = sdoc[p].id}
     IN
       IF rows = {}
       THEN \* DocumentNotFoundError: the row was purged
            /\ Finish(p, "error_500", NoToken)
            /\ UNCHANGED <<sessions, issued>>
       ELSE IF tok # sdoc[p].refreshToken /\
               \E s \in sessions : s.id # sdoc[p].id /\ s.refreshToken = tok
       THEN \* E11000 on the unique index of refreshToken
            /\ Finish(p, "error_500", NoToken)
            /\ UNCHANGED <<sessions, issued>>
       ELSE LET row == CHOOSE s \in rows : TRUE IN
            /\ sessions' = (sessions \ {row}) \cup {refreshedSession(row, sdoc[p], tok, now)}
            /\ issued' = issued \cup {tok}
            /\ Finish(p, "refresh_ok", tok)
  /\ UNCHANGED <<now, horizon, logCap, registered, used, devices, nextVerify, user, nextSid, nextReset, nextSecret, req, recorded, logs, enrich>>

\* ------------------------------------------------------------- logout
\* router.post('/logout', apiLimiter, logout) stands before
\* router.use(authenticate): no middleware sets req.user for it.
LogoutUser == NoUser

\* Session.findOneAndUpdate({ refreshToken, userId }, { isActive: false });
\* without a refresh token and with a user, updateMany({ userId, isActive: true }).
\* A filter value of undefined matches no row that has the field.
LogoutWith(p, tok, userId, access) ==
  /\ pc[p] = "idle"
  /\ LET found == {s \in sessions : s.refreshToken = tok /\ s.userId = userId} IN
       sessions' =
         IF tok # NoToken
         THEN IF found = {} THEN sessions
              ELSE LET row == CHOOSE s \in found : TRUE IN
                   (sessions \ {row}) \cup {[row EXCEPT !.isActive = FALSE]}
         ELSE IF userId # NoUser
         THEN {IF s.userId = userId /\ s.isActive THEN [s EXCEPT !.isActive = FALSE] ELSE s :
                 s \in sessions}
         ELSE sessions
  /\ req' = [req EXCEPT ![p] =
       [NoReq EXCEPT !.op = "logout", !.refreshToken = tok, !.userId = userId,
                     !.accessToken = access]]
  /\ FinishLogged(p, "logout_ok", NoToken,
                  Event(userId, "logout", "success", "User logged out", ChromeWindows, OfficeIP))
  /\ UNCHANGED <<now, horizon, logCap, registered, used, devices, nextVerify, user, nextSid, nextReset, nextSecret, issued, recorded>>

\* A logout request without an Authorization header.
Logout(p, tok, userId) == LogoutWith(p, tok, userId, NoToken)

\* The TTL index on expiresAt (expireAfterSeconds: 0) removes expired rows.
PurgeExpired ==
  /\ \E s \in sessions : s.expiresAt <= now
  /\ sessions' = {s \in sessions : s.expiresAt > now}
  /\ UNCHANGED <<now, horizon, logCap, registered, used, devices, nextVerify, user, nextSid, nextReset, nextSecret, issued, pc, req, doc,
                 sdoc, ddoc, resp, recorded, logs, enrich>>

\* --------------------------------------------------------- two-factor
\* authenticate: verifyAccessToken(), User.findById(), isAccountLocked();
\* the handler op then starts with req.user set.
AuthenticateRequest(p, r) ==
  /\ pc[p] = "idle"
  /\ req' = [req EXCEPT ![p] =
       [r EXCEPT !.userId = IF verifyAccessToken(r.accessToken, now)
                            THEN r.accessToken.userId ELSE NoUser]]
  /\ IF ~verifyAccessToken(r.accessToken, now)
     THEN Finish(p, "unauthorized", NoToken)
     ELSE IF isAccountLocked(selectDefault(user[r.accessToken.userId]), now)
     THEN Finish(p, "locked", NoToken)
     ELSE /\ Goto(p, r.op)
          /\ UNCHANGED <<doc, sdoc, ddoc>>
  /\ UNCHANGED <<now, horizon, logCap, registered, used, devices, nextVerify, user, sessions, nextSid, nextReset, nextSecret, issued, recorded, logs, enrich>>

Authenticate(p, op, tok, tft, sid) ==
  AuthenticateRequest(p, [NoReq EXCEPT !.op = op, !.accessToken = tok,
                                       !.twoFactorToken = tft, !.sessionId = sid])

\* a request with the password, and the new password, in its body
AuthenticateWithPassword(p, op, tok, tft, pw, new) ==
  AuthenticateRequest(p, [NoReq EXCEPT !.op = op, !.accessToken = tok, !.twoFactorToken = tft,
                                       !.password = pw, !.newPassword = new])

\* setup2FA: findById().select('+twoFactorSecret'), a new secret and codes
Setup2FAFind(p) ==
  /\ pc[p] = "setup2FA"
  /\ LET d == selectSecret(user[req[p].userId]) IN
       IF d.twoFactorEnabled
       THEN /\ Finish(p, "already_enabled", NoToken)
            /\ nextSecret' = nextSecret
       ELSE /\ nextSecret <= MaxSecrets
            /\ nextSecret' = nextSecret + 1
            /\ doc' = [doc EXCEPT ![p] =
                 [d EXCEPT !.twoFactorSecret = nextSecret,
                           !.backupCodes = Array(BackupCodesOf(nextSecret))]]
            /\ Goto(p, "setup2FA_save")
            /\ UNCHANGED <<sdoc, ddoc>>
  /\ UNCHANGED <<now, horizon, logCap, registered, used, devices, nextVerify, user, sessions, nextSid, nextReset, issued, req, recorded, logs, enrich>>

\* await user.save(): $set of twoFactorSecret and of the array backupCodes,
\* where { __v }, $inc __v
Setup2FASave(p) ==
  /\ pc[p] = "setup2FA_save"
  /\ LET u == req[p].userId IN
       IF user[u].v = doc[p].v
       THEN /\ user' = [user EXCEPT ![u].twoFactorSecret = doc[p].twoFactorSecret,
                                     ![u].backupCodes = doc[p].backupCodes,
                                     ![u].v = @ + 1]
            /\ Finish(p, "setup2FA_ok", NoToken)
       ELSE /\ user' = user
            /\ Finish(p, "error_500", NoToken)
  /\ UNCHANGED <<now, horizon, logCap, registered, used, devices, nextVerify, sessions, nextSid, nextReset, nextSecret, issued, req, recorded, logs, enrich>>

\* verify2FA: findById().select('+twoFactorSecret +backupCodes'), totp.verify
Verify2FAFind(p) ==
  /\ pc[p] = "verify2FA"
  /\ LET d == selectSecretAndCodes(user[req[p].userId]) IN
       IF d.twoFactorSecret = NoId
       THEN Finish(p, "setup_first", NoToken)
       ELSE IF d.twoFactorEnabled
       THEN Finish(p, "already_enabled", NoToken)
       ELSE IF totpVerify(d.twoFactorSecret, req[p].twoFactorToken) # "valid"
       THEN Finish(p, "invalid_2fa", NoToken)
       ELSE /\ Goto(p, "verify2FA_save")
            /\ doc' = [doc EXCEPT ![p] = d]
            /\ UNCHANGED <<sdoc, ddoc>>
  /\ UNCHANGED <<now, horizon, logCap, registered, used, devices, nextVerify, user, sessions, nextSid, nextReset, nextSecret, issued, req, recorded, logs, enrich>>

\* user.twoFactorEnabled = true; await user.save()
Verify2FASave(p) ==
  /\ pc[p] = "verify2FA_save"
  /\ user' = [user EXCEPT ![req[p].userId] = verify2FAUpdate(@)]
  /\ \E m \in MailOutcomes :
       \* sendSecurityAlertEmail in a try whose catch only writes to the console
       FinishMailed(logs, p, "verify2FA_ok", NoToken,
                    Event(req[p].userId, "2fa_enabled", "success", "2FA enabled successfully",
                          req[p].userAgent, req[p].ipAddress), m)
  /\ UNCHANGED <<now, horizon, logCap, registered, used, devices, nextVerify, sessions, nextSid, nextReset, nextSecret, issued, req, recorded>>

\* disable2FA: findById().select('+password +twoFactorSecret'), the password
\* and the code
Disable2FAFind(p) ==
  /\ pc[p] = "disable2FA"
  /\ LET d == selectPasswordAndSecret(user[req[p].userId]) IN
       IF ~d.twoFactorEnabled
       THEN /\ Finish(p, "not_enabled", NoToken)
            /\ now' = now
       ELSE /\ now < horizon
            /\ now' = now + 1
            /\ IF ~comparePassword(d, req[p].password)
               THEN Finish(p, "invalid_password", NoToken)
               ELSE IF totpVerify(d.twoFactorSecret, req[p].twoFactorToken) = "throws"
               THEN Finish(p, "error_500", NoToken)
               ELSE IF totpVerify(d.twoFactorSecret, req[p].twoFactorToken) = "invalid"
               THEN Finish(p, "invalid_2fa", NoToken)
               ELSE /\ Goto(p, "disable2FA_save")
                    /\ doc' = [doc EXCEPT ![p] = d]
                    /\ UNCHANGED <<sdoc, ddoc>>
  /\ UNCHANGED <<horizon, logCap, registered, used, devices, nextVerify, user, sessions, nextSid, nextReset, nextSecret, issued, req, recorded, logs, enrich>>

\* await user.save(); the alert email; the entry
Disable2FASave(p) ==
  /\ pc[p] = "disable2FA_save"
  /\ user' = [user EXCEPT ![req[p].userId] = disable2FAUpdate(@)]
  /\ \E m \in MailOutcomes :
       FinishMailed(logs, p, "disable2FA_ok", NoToken,
                    Event(req[p].userId, "2fa_disabled", "success",
                          "Two-factor authentication disabled",
                          req[p].userAgent, req[p].ipAddress), m)
  /\ UNCHANGED <<now, horizon, logCap, registered, used, devices, nextVerify, sessions, nextSid, nextReset, nextSecret, issued, req, recorded>>

\* regenerateBackupCodes: findById().select('+password +backupCodes'), the
\* password, 10 new codes
RegenerateFind(p) ==
  /\ pc[p] = "regenerateBackupCodes"
  /\ LET d == selectPasswordAndCodes(user[req[p].userId]) IN
       IF ~d.twoFactorEnabled
       THEN /\ Finish(p, "not_enabled", NoToken)
            /\ UNCHANGED <<now, nextSecret>>
       ELSE /\ now < horizon
            /\ now' = now + 1
            /\ IF ~comparePassword(d, req[p].password)
               THEN /\ Finish(p, "invalid_password", NoToken)
                    /\ nextSecret' = nextSecret
               ELSE /\ nextSecret <= MaxSecrets
                    /\ nextSecret' = nextSecret + 1
                    /\ doc' = [doc EXCEPT ![p] =
                         [d EXCEPT !.backupCodes = Array(BackupCodesOf(nextSecret))]]
                    /\ Goto(p, "regenerateBackupCodes_save")
                    /\ UNCHANGED <<sdoc, ddoc>>
  /\ UNCHANGED <<horizon, logCap, registered, used, devices, nextVerify, user, sessions, nextSid, nextReset, issued, req, recorded, logs, enrich>>

\* await user.save(): $set of the array backupCodes, where { __v }, $inc __v
RegenerateSave(p) ==
  /\ pc[p] = "regenerateBackupCodes_save"
  /\ LET u == req[p].userId IN
       IF user[u].v = doc[p].v
       THEN /\ user' = [user EXCEPT ![u] = regenerateUpdate(@, doc[p])]
            /\ FinishLogged(p, "regenerate_ok", NoToken,
                            Event(u, "2fa_backup_codes_regenerated", "success",
                                  "Backup codes regenerated",
                                  req[p].userAgent, req[p].ipAddress))
       ELSE /\ user' = user
            /\ Finish(p, "error_500", NoToken)
            /\ NoLog
  /\ UNCHANGED <<now, horizon, logCap, registered, used, devices, nextVerify, sessions, nextSid, nextReset, nextSecret, issued, req, recorded>>

\* ------------------------------------------------------ changePassword
\* findById().select('+password'), the current password, the strength of the
\* new one, the new one against the current
ChangePasswordFind(p) ==
  /\ pc[p] = "changePassword"
  /\ now < horizon
  /\ now' = now + 1
  /\ LET d == selectPassword(user[req[p].userId]) IN
       IF ~comparePassword(d, req[p].password)
       THEN FinishLogged(p, "invalid_password", NoToken,
                         Event(req[p].userId, "password_change", "failure",
                               "Invalid current password", req[p].userAgent, req[p].ipAddress))
       ELSE IF checkPasswordStrength(req[p].newPassword) = "weak"
       THEN Finish(p, "weak_password", NoToken) /\ NoLog
       ELSE IF comparePassword(d, req[p].newPassword)
       THEN Finish(p, "same_password", NoToken) /\ NoLog
       ELSE /\ Goto(p, "changePassword_save")
            /\ doc' = [doc EXCEPT ![p] = d]
            /\ UNCHANGED <<sdoc, ddoc>>
            /\ NoLog
  /\ UNCHANGED <<horizon, logCap, registered, used, devices, nextVerify, user, sessions, nextSid, nextReset, nextSecret, issued, req, recorded>>

\* checkSuspiciousPasswordChange(); user.password = newPassword; save(); the
\* two emails; the entry
ChangePasswordSave(p) ==
  /\ pc[p] = "changePassword_save"
  /\ LET u == req[p].userId
         ua == req[p].userAgent
         ip == req[p].ipAddress
         suspicious == riskScorePasswordChange(logs, u, ip, now) >= 40
     IN
       /\ user' = [user EXCEPT ![u].password = hash(req[p].newPassword)]
       /\ used' = [used EXCEPT ![u] = @ \cup {user[u].password}]
       /\ \E w \in IF suspicious THEN WriteOutcomes(logs, SuspiciousChange(u, ua, ip))
                    ELSE {"none"} :
          \E m1, m2 \in MailOutcomes :
            FinishMailed(IF w = "ok" THEN Append(logs, SuspiciousChange(u, ua, ip)) ELSE logs,
                         p, "change_ok", NoToken,
                         Event(u, "password_change", "success", "Password changed successfully",
                               ua, ip),
                         IF "throws" \in {m1, m2} THEN "throws" ELSE "sent")
  /\ UNCHANGED <<now, horizon, logCap, registered, devices, nextVerify, sessions, nextSid, nextReset, nextSecret, issued, req, recorded>>

\* ----------------------------------------------------- revokeSession
\* Session.findOne({ _id: sessionId, userId })
RevokeSessionFind(p) ==
  /\ pc[p] = "revokeSession"
  /\ LET found == {s \in sessions : s.id = req[p].sessionId /\ s.userId = req[p].userId} IN
       IF found = {}
       THEN Finish(p, "session_not_found", NoToken)
       ELSE /\ Goto(p, "revokeSession_save")
            /\ sdoc' = [sdoc EXCEPT ![p] = CHOOSE s \in found : TRUE]
            /\ ddoc' = ddoc
            /\ doc' = doc
  /\ UNCHANGED <<now, horizon, logCap, registered, used, devices, nextVerify, user, sessions, nextSid, nextReset, nextSecret, issued, req, recorded, logs, enrich>>

\* session.isActive = false; await session.save()
RevokeSessionSave(p) ==
  /\ pc[p] = "revokeSession_save"
  /\ LET rows == {s \in sessions : s.id = sdoc[p].id} IN
       IF rows = {}
       THEN /\ Finish(p, "error_500", NoToken)
            /\ sessions' = sessions
            /\ NoLog
       ELSE LET row == CHOOSE s \in rows : TRUE IN
            /\ sessions' = (sessions \ {row}) \cup
                 {[row EXCEPT !.isActive = IF sdoc[p].isActive THEN FALSE ELSE @]}
            /\ FinishLogged(p, "revoke_ok", NoToken,
                            Event(req[p].userId, "session_revoked", "success", "Session revoked",
                                  req[p].userAgent, req[p].ipAddress))
  /\ UNCHANGED <<now, horizon, logCap, registered, used, devices, nextVerify, user, nextSid, nextReset, nextSecret, issued, req, recorded>>

\* An update that also ends the life of the row: the TTL index removes it.
deactivateExpiring(s) == [s EXCEPT !.isActive = FALSE, !.expiresAt = now]

\* The update of a revocation: { isActive: false }
deactivate(s) == [s EXCEPT !.isActive = FALSE]

\* revokeAllSessions: Session.updateMany({ userId, refreshToken: { $ne:
\* currentRefreshToken }, isActive: true }, { isActive: false }); the entry; 200
RevokeAllSessions(p) ==
  /\ pc[p] = "revokeAllSessions"
  /\ sessions' = {IF s.userId = req[p].userId /\ s.refreshToken # req[p].refreshToken /\ s.isActive
                  THEN deactivate(s) ELSE s : s \in sessions}
  /\ FinishLogged(p, "revoke_all_ok", NoToken,
                  Event(req[p].userId, "all_sessions_revoked", "success",
                        "All sessions revoked except current",
                        req[p].userAgent, req[p].ipAddress))
  /\ UNCHANGED <<now, horizon, logCap, registered, used, devices, nextVerify, user, nextSid, nextReset, nextSecret, issued, req, recorded>>

\* ------------------------------------------------------------ devices
\* a request to /devices with the headers ua and ip, the device id in its
\* path and currentRefreshToken in its body
AuthenticateDevice(p, op, tok, id, cur, ua, ip) ==
  AuthenticateRequest(p, [NoReq EXCEPT !.op = op, !.accessToken = tok, !.deviceId = id,
                                       !.refreshToken = cur, !.userAgent = ua, !.ipAddress = ip])

\* trustDevice: Device.findOne({ userId, deviceId })
TrustDeviceFind(p) ==
  /\ pc[p] = "trustDevice"
  /\ LET found == {d \in devices : d.userId = req[p].userId /\ d.deviceId = req[p].deviceId} IN
       IF found = {}
       THEN Finish(p, "device_not_found", NoToken)
       ELSE /\ Goto(p, "trustDevice_save")
            /\ ddoc' = [ddoc EXCEPT ![p] = CHOOSE d \in found : TRUE]
            /\ UNCHANGED <<doc, sdoc>>
  /\ UNCHANGED <<now, horizon, logCap, registered, used, devices, nextVerify, user, sessions, nextSid, nextReset, nextSecret, issued, req, recorded, logs, enrich>>

\* device.isTrusted = true; await device.save(); the entry; 200.
\* save() of a row that is gone throws DocumentNotFoundError.
TrustDeviceSave(p) ==
  /\ pc[p] = "trustDevice_save"
  /\ LET rows == {d \in devices : d.userId = ddoc[p].userId /\ d.deviceId = ddoc[p].deviceId} IN
       IF rows = {}
       THEN /\ Finish(p, "error_500", NoToken)
            /\ devices' = devices
            /\ NoLog
       ELSE /\ devices' = {IF d \in rows /\ ~ddoc[p].isTrusted
                            THEN [d EXCEPT !.isTrusted = TRUE] ELSE d : d \in devices}
            /\ FinishLogged(p, "trust_device_ok", NoToken,
                            Event(req[p].userId, "device_trusted", "success", "Device marked as trusted",
                                  req[p].userAgent, req[p].ipAddress))
  /\ UNCHANGED <<now, horizon, logCap, registered, used, nextVerify, user, sessions, nextSid, nextReset, nextSecret, issued, req, recorded>>

\* revokeDevice: Device.findOne({ userId, deviceId })
RevokeDeviceFind(p) ==
  /\ pc[p] = "revokeDevice"
  /\ LET found == {d \in devices : d.userId = req[p].userId /\ d.deviceId = req[p].deviceId} IN
       IF found = {}
       THEN Finish(p, "device_not_found", NoToken)
       ELSE /\ Goto(p, "revokeDevice_sessions")
            /\ ddoc' = [ddoc EXCEPT ![p] = CHOOSE d \in found : TRUE]
            /\ UNCHANGED <<doc, sdoc>>
  /\ UNCHANGED <<now, horizon, logCap, registered, used, devices, nextVerify, user, sessions, nextSid, nextReset, nextSecret, issued, req, recorded, logs, enrich>>

\* A filter on 'deviceInfo.deviceId', a path no session has: it matches none.
revokeDeviceFilterNoPath(s, u, d) == FALSE

\* The filter without its userId.
revokeDeviceFilterAnyUser(s, u, d) ==
  /\ s.deviceInfo.deviceType = d.deviceType
  /\ s.deviceInfo.ipAddress = d.ipAddress

\* The filter of the updateMany of revokeDevice:
\* { userId, 'deviceInfo.deviceType': device.deviceType,
\*   'deviceInfo.ipAddress': device.ipAddress }
revokeDeviceFilter(s, u, d) ==
  /\ s.userId = u
  /\ s.deviceInfo.deviceType = d.deviceType
  /\ s.deviceInfo.ipAddress = d.ipAddress

\* await Session.updateMany(filter, { isActive: false })
RevokeDeviceSessions(p) ==
  /\ pc[p] = "revokeDevice_sessions"
  /\ sessions' = {IF revokeDeviceFilter(s, req[p].userId, ddoc[p])
                  THEN [s EXCEPT !.isActive = FALSE] ELSE s : s \in sessions}
  /\ Goto(p, "revokeDevice_delete")
  /\ UNCHANGED <<now, horizon, logCap, registered, used, devices, nextVerify, user, nextSid, nextReset, nextSecret, issued, req, doc, sdoc, ddoc, recorded, logs, enrich>>

\* await device.deleteOne(); the entry; 200
RevokeDeviceDelete(p) ==
  /\ pc[p] = "revokeDevice_delete"
  /\ devices' = {d \in devices : ~(d.userId = ddoc[p].userId /\ d.deviceId = ddoc[p].deviceId)}
  /\ FinishLogged(p, "revoke_device_ok", NoToken,
                  Event(req[p].userId, "device_revoked", "success", "Device revoked",
                        req[p].userAgent, req[p].ipAddress))
  /\ UNCHANGED <<now, horizon, logCap, registered, used, nextVerify, user, sessions, nextSid, nextReset, nextSecret, issued, req, recorded>>

\* revokeAllDevices: Device.deleteMany({ userId, deviceId: { $ne: currentDeviceId } })
RevokeAllDevicesDelete(p) ==
  /\ pc[p] = "revokeAllDevices"
  /\ LET currentDeviceId == generateDeviceId(parseDeviceInfo(req[p].userAgent, req[p].ipAddress)) IN
       devices' = {d \in devices : ~(d.userId = req[p].userId /\ d.deviceId # currentDeviceId)}
  /\ Goto(p, "revokeAllDevices_sessions")
  /\ UNCHANGED <<now, horizon, logCap, registered, used, nextVerify, user, sessions, nextSid, nextReset, nextSecret, issued, req, doc, sdoc, ddoc, recorded, logs, enrich>>

\* Session.updateMany({ userId, refreshToken: { $ne: req.body.currentRefreshToken } },
\*                    { isActive: false }); the entry; 200.
\* Without currentRefreshToken the filter is { $ne: undefined }, which every
\* session satisfies.
RevokeAllDevicesSessions(p) ==
  /\ pc[p] = "revokeAllDevices_sessions"
  /\ sessions' = {IF s.userId = req[p].userId /\ s.refreshToken # req[p].refreshToken
                  THEN [s EXCEPT !.isActive = FALSE] ELSE s : s \in sessions}
  /\ FinishLogged(p, "revoke_all_devices_ok", NoToken,
                  Event(req[p].userId, "all_devices_revoked", "success",
                        "All devices revoked except current",
                        req[p].userAgent, req[p].ipAddress))
  /\ UNCHANGED <<now, horizon, logCap, registered, used, devices, nextVerify, user, nextSid, nextReset, nextSecret, issued, req, recorded>>

\* ------------------------------------------------------ specifications
\* Lockout, requests interleaved at their awaits.
LockNext ==
  \/ \E p \in Procs, u \in UserIds, pw \in Passwords : LoginFind(p, u, pw, NoTwoFactor)
  \/ \E p \in Procs : LoginCheck(p)
  \/ \E p \in Procs : LoginFail(p)
  \/ \E p \in Procs : LoginTwoFactor(p)
  \/ \E p \in Procs : LoginReset(p)
  \/ \E p \in Procs : LoginSession(p)
  \/ Tick
SpecLock == InitAt(MaxTimeConc) /\ [][LockNext]_vars

\* Logins in any interleaving on an account whose lock has run out: the
\* threshold was reached and lockUntil is in the past.
ExpiredLock == 1
InitExpired ==
  InitState(MaxTimeExpired, 0, ExpiredLock + 1, <<>>, NoReq, {},
            [u \in UserIds |->
               [NewUser(InitialPassword) EXCEPT !.loginAttempts = maxAttempts,
                                                !.lockUntil = ExpiredLock, !.isLocked = TRUE]])
SpecExpired == InitExpired /\ [][LockNext]_vars

\* A locked account that holds a session, one request at a time: the user
\* logged in from the office Chrome and the threshold was reached right
\* after, all within the first clock unit.  Login, refresh, a request behind
\* authenticate, the clock.
InitLocked ==
  LET u == CHOOSE x \in UserIds : TRUE
      info == parseDeviceInfo(ChromeWindows, OfficeIP)
      tok == generateRefreshToken(u, 1)
  IN
  /\ horizon = MaxTimeLocked
  /\ logCap = 0
  /\ devices = upsertDevice({}, u, info)
  /\ logs = <<>>
  /\ enrich = {}
  /\ nextVerify = 2
  /\ now = 1
  /\ user = [x \in UserIds |->
               [NewUser(InitialPassword) EXCEPT !.loginAttempts = maxAttempts,
                                                !.lockUntil = 1 + lockTime, !.isLocked = TRUE]]
  /\ sessions = {[ id |-> 1, userId |-> u, refreshToken |-> tok, isActive |-> TRUE,
                   expiresAt |-> 1 + SessionDays, lastActivity |-> 1, deviceInfo |-> info ]}
  /\ nextSid = 2
  /\ nextReset = 1
  /\ nextSecret = 1
  /\ issued = {tok}
  /\ pc = [p \in Procs |-> "idle"]
  /\ req = [p \in Procs |-> NoReq]
  /\ doc = [p \in Procs |-> NoDoc]
  /\ sdoc = [p \in Procs |-> NoSession]
  /\ ddoc = [p \in Procs |-> NoDeviceDoc]
  /\ resp = [p \in Procs |-> NoResp]
  /\ recorded = [x \in UserIds |-> maxAttempts]
  /\ registered = {}
  /\ used = [x \in UserIds |-> {}]
LockedNext ==
  \/ \E u \in UserIds, pw \in Passwords : LoginFind(1, u, pw, NoTwoFactor)
  \/ LoginCheck(1)
  \/ LoginFail(1)
  \/ LoginTwoFactor(1)
  \/ LoginReset(1)
  \/ LoginSession(1)
  \/ \E tok \in issued : RefreshFind(1, tok)
  \/ RefreshUser(1)
  \/ RefreshSave(1)
  \/ \E tok \in issued, sid \in 1 .. MaxSessions :
       Authenticate(1, "revokeSession", tok, NoTwoFactor, sid)
  \/ RevokeSessionFind(1)
  \/ RevokeSessionSave(1)
  \/ Tick
SpecLocked == InitLocked /\ [][LockedNext]_vars

\* An account beside the modelled ones.
OtherUser == "u2"

\* Two users who logged in from the same office Chrome within the first
\* clock unit: each holds one active session and a device row of the same
\* deviceId; the other user also holds the row of a Firefox at home.  The
\* requests are those of the first user, who holds the tokens of the first
\* login.
InitSessions(h, cap) ==
  LET u == CHOOSE x \in UserIds : TRUE
      info == parseDeviceInfo(ChromeWindows, OfficeIP)
      tok == generateRefreshToken(u, 1)
  IN
  /\ horizon = h
  /\ logCap = cap
  /\ devices = upsertDevice(upsertDevice(upsertDevice({}, u, info), OtherUser, info),
                            OtherUser, parseDeviceInfo(FirefoxWindows, HomeIP))
  /\ logs = <<>>
  /\ enrich = {}
  /\ nextVerify = 2
  /\ now = 1
  /\ user = [x \in UserIds |-> NewUser(InitialPassword)]
  /\ sessions = {[ id |-> 1, userId |-> u, refreshToken |-> tok, isActive |-> TRUE,
                   expiresAt |-> 1 + SessionDays, lastActivity |-> 1, deviceInfo |-> info ],
                 [ id |-> 2, userId |-> OtherUser,
                   refreshToken |-> generateRefreshToken(OtherUser, 1), isActive |-> TRUE,
                   expiresAt |-> 1 + SessionDays, lastActivity |-> 1, deviceInfo |-> info ]}
  /\ nextSid = 3
  /\ nextReset = 1
  /\ nextSecret = 1
  /\ issued = {tok}
  /\ pc = [p \in Procs |-> "idle"]
  /\ req = [p \in Procs |-> NoReq]
  /\ doc = [p \in Procs |-> NoDoc]
  /\ sdoc = [p \in Procs |-> NoSession]
  /\ ddoc = [p \in Procs |-> NoDeviceDoc]
  /\ resp = [p \in Procs |-> NoResp]
  /\ recorded = [x \in UserIds |-> 0]
  /\ registered = {}
  /\ used = [x \in UserIds |-> {}]

\* Sessions with a security log that takes rows, requests interleaved at
\* their awaits: refresh, logout, the revocation of a session, of all
\* sessions and of a device.
MonoNext ==
  \/ \E p \in Procs, tok \in issued : RefreshFind(p, tok)
  \/ \E p \in Procs : RefreshUser(p)
  \/ \E p \in Procs : RefreshSave(p)
  \/ \E p \in Procs, tok \in issued : Logout(p, tok, LogoutUser)
  \/ \E p \in Procs, tok \in issued, sid \in 1 .. MaxSessions :
       Authenticate(p, "revokeSession", tok, NoTwoFactor, sid)
  \/ \E p \in Procs : RevokeSessionFind(p)
  \/ \E p \in Procs : RevokeSessionSave(p)
  \/ \E p \in Procs, tok \in issued, cur \in issued \cup {NoToken} :
       AuthenticateDevice(p, "revokeAllSessions", tok, NoDevice, cur, ChromeWindows, OfficeIP)
  \/ \E p \in Procs : RevokeAllSessions(p)
  \/ \E p \in Procs, tok \in issued :
       AuthenticateDevice(p, "revokeDevice", tok,
                          generateDeviceId(parseDeviceInfo(ChromeWindows, OfficeIP)),
                          NoToken, ChromeWindows, OfficeIP)
  \/ \E p \in Procs : RevokeDeviceFind(p)
  \/ \E p \in Procs : RevokeDeviceSessions(p)
  \/ \E p \in Procs : RevokeDeviceDelete(p)
  \/ Tick
SpecMono == InitSessions(MaxTimeMono, MaxLogsMono) /\ [][MonoNext]_vars

\* The requests of one user that address sessions and devices by id or
\* all at once, one request at a time, beside the rows of another user.
IsolationNext ==
  \/ \E tok \in issued, sid \in 1 .. MaxSessions :
       Authenticate(1, "revokeSession", tok, NoTwoFactor, sid)
  \/ RevokeSessionFind(1)
  \/ RevokeSessionSave(1)
  \/ \E tok \in issued, cur \in issued \cup {NoToken} :
       AuthenticateDevice(1, "revokeAllSessions", tok, NoDevice, cur, ChromeWindows, OfficeIP)
  \/ RevokeAllSessions(1)
  \/ \E tok \in issued, id \in DeviceIds :
       AuthenticateDevice(1, "trustDevice", tok, id, NoToken, ChromeWindows, OfficeIP)
  \/ TrustDeviceFind(1)
  \/ TrustDeviceSave(1)
  \/ \E tok \in issued, id \in DeviceIds :
       AuthenticateDevice(1, "revokeDevice", tok, id, NoToken, ChromeWindows, OfficeIP)
  \/ RevokeDeviceFind(1)
  \/ RevokeDeviceSessions(1)
  \/ RevokeDeviceDelete(1)
  \/ \E tok \in issued, cur \in issued \cup {NoToken}, ua \in Desktops, ip \in IPs :
       AuthenticateDevice(1, "revokeAllDevices", tok, NoDevice, cur, ua, ip)
  \/ RevokeAllDevicesDelete(1)
  \/ RevokeAllDevicesSessions(1)
  \/ Tick
SpecIsolation == InitSessions(MaxTimeMono, 0) /\ [][IsolationNext]_vars

\* The password reset with requests in any interleaving.
ResetNext ==
  \/ \E p \in Procs, u \in UserIds : ForgotPassword(p, u)
  \/ \E p \in Procs, tok \in 1 .. MaxResetTokens, pw \in Candidates : ResetFind(p, tok, pw)
  \/ \E p \in Procs : ResetUnlock(p)
  \/ \E p \in Procs : ResetSave(p)
  \/ Tick
SpecReset == InitAt(MaxTimeReset) /\ [][ResetNext]_vars

\* Lockout and password reset, one request at a time: each runs to completion.
LockSeqNext ==
  \/ \E u \in UserIds, pw \in Passwords : LoginFind(1, u, pw, NoTwoFactor)
  \/ LoginCheck(1)
  \/ LoginFail(1)
  \/ LoginTwoFactor(1)
  \/ LoginReset(1)
  \/ LoginSession(1)
  \/ \E u \in UserIds : ForgotPassword(1, u)
  \/ \E tok \in 1 .. MaxResetTokens, pw \in Candidates : ResetFind(1, tok, pw)
  \/ ResetUnlock(1)
  \/ ResetSave(1)
  \/ Tick
SpecLockSeq == InitAt(MaxTime) /\ [][LockSeqNext]_vars

\* Sessions, one request at a time.
SessSeqNext ==
  \/ \E u \in UserIds : LoginFind(1, u, InitialPassword, NoTwoFactor)
  \/ LoginCheck(1)
  \/ LoginTwoFactor(1)
  \/ LoginReset(1)
  \/ LoginSession(1)
  \/ \E tok \in issued : RefreshFind(1, tok)
  \/ RefreshUser(1)
  \/ RefreshSave(1)
  \/ \E tok \in issued \cup {NoToken}, access \in issued \cup {NoToken} :
       LogoutWith(1, tok, LogoutUser, access)
  \/ \E tok \in issued, sid \in 1 .. MaxSessions :
       Authenticate(1, "revokeSession", tok, NoTwoFactor, sid)
  \/ RevokeSessionFind(1)
  \/ RevokeSessionSave(1)
  \/ PurgeExpired
  \/ Tick
SpecSessSeq == InitAt(MaxTimeSess) /\ [][SessSeqNext]_vars

\* Sessions, requests interleaved at their awaits.
SessNext ==
  \/ \E p \in Procs, u \in UserIds : LoginFind(p, u, InitialPassword, NoTwoFactor)
  \/ \E p \in Procs : LoginCheck(p)
  \/ \E p \in Procs : LoginTwoFactor(p)
  \/ \E p \in Procs : LoginReset(p)
  \/ \E p \in Procs : LoginSession(p)
  \/ \E p \in Procs, tok \in issued : RefreshFind(p, tok)
  \/ \E p \in Procs : RefreshUser(p)
  \/ \E p \in Procs : RefreshSave(p)
  \/ \E p \in Procs, tok \in issued \cup {NoToken} : Logout(p, tok, LogoutUser)
  \/ \E p \in Procs, tok \in issued, sid \in 1 .. MaxSessions :
       Authenticate(p, "revokeSession", tok, NoTwoFactor, sid)
  \/ \E p \in Procs : RevokeSessionFind(p)
  \/ \E p \in Procs : RevokeSessionSave(p)
  \/ PurgeExpired
  \/ Tick
SpecSess == InitAt(MaxTimeSessConc) /\ [][SessNext]_vars

\* Two-factor: setup, verification, disabling and login, requests interleaved.  The
\* codes a client types: none, six digits that are no valid code, the code
\* of the first secret generated, the first of its backup codes.
TwoFactorTokens ==
  {NoTwoFactor, Totp(NoId), Totp(1), Backup(BackupCodesOf(1)[1])}
TwoFactorNext ==
  \/ \E p \in Procs, u \in UserIds, tft \in TwoFactorTokens :
       LoginFind(p, u, InitialPassword, tft)
  \/ \E p \in Procs : LoginCheck(p)
  \/ \E p \in Procs : LoginTwoFactor(p)
  \/ \E p \in Procs : LoginReset(p)
  \/ \E p \in Procs : LoginSession(p)
  \/ \E p \in Procs, tok \in issued : Authenticate(p, "setup2FA", tok, NoTwoFactor, NoId)
  \/ \E p \in Procs, tok \in issued, tft \in TwoFactorTokens :
       Authenticate(p, "verify2FA", tok, tft, NoId)
  \/ \E p \in Procs : Setup2FAFind(p)
  \/ \E p \in Procs : Setup2FASave(p)
  \/ \E p \in Procs : Verify2FAFind(p)
  \/ \E p \in Procs : Verify2FASave(p)
  \/ \E p \in Procs, tok \in issued, tft \in TwoFactorTokens :
       AuthenticateWithPassword(p, "disable2FA", tok, tft, InitialPassword, "")
  \/ \E p \in Procs : Disable2FAFind(p)
  \/ \E p \in Procs : Disable2FASave(p)
  \/ Tick
Spec2FA == InitAt(MaxTime2FA) /\ [][TwoFactorNext]_vars

\* Two-factor and the password, one request at a time.  The codes a client
\* types: those above and the code of every secret generated.
AllTwoFactorTokens == TwoFactorTokens \cup {Totp(g) : g \in 1 .. MaxSecrets}
TwoFactorSeqNext ==
  \/ \E u \in UserIds, pw \in Passwords, tft \in AllTwoFactorTokens : LoginFind(1, u, pw, tft)
  \/ LoginCheck(1)
  \/ LoginFail(1)
  \/ LoginTwoFactor(1)
  \/ LoginReset(1)
  \/ LoginSession(1)
  \/ \E tok \in issued : Authenticate(1, "setup2FA", tok, NoTwoFactor, NoId)
  \/ \E tok \in issued, tft \in AllTwoFactorTokens : Authenticate(1, "verify2FA", tok, tft, NoId)
  \/ \E tok \in issued, tft \in AllTwoFactorTokens, pw \in Passwords :
       AuthenticateWithPassword(1, "disable2FA", tok, tft, pw, "")
  \/ \E tok \in issued, pw \in Passwords :
       AuthenticateWithPassword(1, "regenerateBackupCodes", tok, NoTwoFactor, pw, "")
  \/ \E tok \in issued, pw \in Passwords, new \in Candidates :
       AuthenticateWithPassword(1, "changePassword", tok, NoTwoFactor, pw, new)
  \/ Setup2FAFind(1)
  \/ Setup2FASave(1)
  \/ Verify2FAFind(1)
  \/ Verify2FASave(1)
  \/ Disable2FAFind(1)
  \/ Disable2FASave(1)
  \/ RegenerateFind(1)
  \/ RegenerateSave(1)
  \/ ChangePasswordFind(1)
  \/ ChangePasswordSave(1)
  \/ \E u \in UserIds : ForgotPassword(1, u)
  \/ \E tok \in 1 .. MaxResetTokens, pw \in Candidates : ResetFind(1, tok, pw)
  \/ ResetUnlock(1)
  \/ ResetSave(1)
  \/ Tick
SpecTwoFactorSeq == InitAt(MaxTime2FASeq) /\ [][TwoFactorSeqNext]_vars

\* Passwords, one request at a time: register, login, changePassword,
\* forgotPassword and resetPassword.
PasswordNext ==
  \/ \E e \in Emails, pw \in Candidates : Register(1, e, pw)
  \/ \E u \in UserIds, pw \in Passwords : LoginFind(1, u, pw, NoTwoFactor)
  \/ LoginCheck(1)
  \/ LoginFail(1)
  \/ LoginTwoFactor(1)
  \/ LoginReset(1)
  \/ LoginSession(1)
  \/ \E tok \in issued, pw \in Passwords, new \in Candidates :
       AuthenticateWithPassword(1, "changePassword", tok, NoTwoFactor, pw, new)
  \/ ChangePasswordFind(1)
  \/ ChangePasswordSave(1)
  \/ \E u \in UserIds : ForgotPassword(1, u)
  \/ \E tok \in 1 .. MaxResetTokens, pw \in Candidates : ResetFind(1, tok, pw)
  \/ ResetUnlock(1)
  \/ ResetSave(1)
  \/ Tick
SpecPassword == InitAt(MaxTimePwd) /\ [][PasswordNext]_vars

\* ------------------------------------------- checkPasswordStrength alone
\* POST /check-password with the password t has arrived
InitStrength ==
  \E t \in TypedPasswords :
    InitReq(MaxTime, 0, 1, <<>>, [NoReq EXCEPT !.op = "checkPassword", !.candidate = t])

\* checkPassword: 400 without a password, else checkPasswordStrength(password)
CheckPassword(p) ==
  /\ pc[p] = "checkPassword"
  /\ pc' = [pc EXCEPT ![p] = "idle"]
  /\ LET t == req[p].candidate IN
       resp' = [resp EXCEPT ![p] =
         IF length(t.shape) = 0
         THEN [NoResp EXCEPT !.status = "password_required", !.intended = "password_required"]
         ELSE [NoResp EXCEPT !.status = "check_ok", !.intended = "check_ok",
                             !.strength = [score |-> score(requirementsOf(t)),
                                           strength |-> strength(score(requirementsOf(t)))]]]
  /\ UNCHANGED <<now, horizon, logCap, registered, used, devices, nextVerify, user, sessions, nextSid, nextReset,
                 nextSecret, issued, req, doc, sdoc, ddoc, recorded, logs, enrich>>

StrengthNext == \E p \in Procs : CheckPassword(p)
SpecStrength == InitStrength /\ [][StrengthNext]_vars

\* ------------------------------------------- checkSuspiciousLogin alone
\* The entry a login of user u from ua and ip left at time t.
LoginRow(u, status, ua, ip, t) ==
  [ userId |-> u, email |-> u, action |-> "login", status |-> status,
    details |-> "login", ipAddress |-> ip, userAgent |-> ua,
    location |-> NoLocation, createdAt |-> t, updatedAt |-> t ]

RECURSIVE Rows(_, _)
Rows(n, row) == IF n = 0 THEN <<>> ELSE Append(Rows(n - 1, row), row)

\* A login history of user u: a successful logins from the office at ts - 1,
\* then b successful logins from home at ts, then f failures at tf.
History(u, a, b, f, ts, tf) ==
  Rows(a, LoginRow(u, "success", ChromeWindows, OfficeIP, ts - 1))
  \o Rows(b, LoginRow(u, "success", ChromeWindows, HomeIP, ts))
  \o Rows(f, LoginRow(u, "failure", ChromeWindows, OfficeIP, tf))

Histories ==
  { History(u, a, b, f, ts, tf) :
      u \in UserIds, a \in {0, 1}, b \in {0, 1, HistoryLimit}, f \in {2, 3},
      ts \in {2, MaxTimeRisk - 2}, tf \in {MaxTimeRisk - 3, MaxTimeRisk - 2} }

InitRisk ==
  \E L \in Histories, t \in {MaxTimeRisk - 2, MaxTimeRisk - 1} :
    InitFrom(MaxTimeRisk, Len(L) + MaxSuspicions, t, L)

\* checkSuspiciousLogin(userId, req) is called
CheckSuspiciousLoginCall(p, u, ua, ip) ==
  /\ pc[p] = "idle"
  /\ req' = [req EXCEPT ![p] = [NoReq EXCEPT !.op = "checkSuspiciousLogin", !.userId = u,
                                              !.userAgent = ua, !.ipAddress = ip]]
  /\ Goto(p, "checkSuspiciousLogin")
  /\ UNCHANGED <<now, horizon, logCap, registered, used, devices, nextVerify, user, sessions, nextSid, nextReset,
                 nextSecret, issued, doc, sdoc, ddoc, recorded, logs, enrich>>

\* checkSuspiciousLogin: User.findById, the two queries of the log, the
\* score, the suspicious_activity entry, the value returned
CheckSuspiciousLogin(p) ==
  /\ pc[p] = "checkSuspiciousLogin"
  /\ LET u == req[p].userId
         ua == req[p].userAgent
         ip == req[p].ipAddress
         d == selectDefault(user[u])
         suspicious == isSuspicious(riskScore(logs, d, u, ua, ip, now))
     IN
       \E w \in IF suspicious THEN WriteOutcomes(logs, Suspicion(u, ua, ip)) ELSE {"none"} :
         /\ logs' = IF w = "ok" THEN Append(logs, Suspicion(u, ua, ip)) ELSE logs
         /\ pc' = [pc EXCEPT ![p] = "idle"]
         /\ resp' = [resp EXCEPT ![p] =
              [NoResp EXCEPT !.status = "checked", !.intended = "checked", !.logWrite = w,
                             !.risk = checkSuspiciousLogin(logs, d, u, ua, ip, now, w)]]
  /\ UNCHANGED <<now, horizon, logCap, registered, used, devices, nextVerify, user, sessions, nextSid, nextReset,
                 nextSecret, issued, req, doc, sdoc, ddoc, recorded, enrich>>

\* The risk engine on the login histories, one call at a time.
RiskNext ==
  \/ \E u \in UserIds, ua \in Desktops, ip \in IPs : CheckSuspiciousLoginCall(1, u, ua, ip)
  \/ CheckSuspiciousLogin(1)
  \/ Tick
SpecRisk == InitRisk /\ [][RiskNext]_vars

\* The scoring of password changes, one request at a time, with a security
\* log that takes rows: logins and changePassword requests from two
\* addresses, with the right and a wrong current password.
ChangeNext ==
  \/ \E u \in UserIds, ip \in IPs :
       LoginFrom(1, u, InitialPassword, NoTwoFactor, ChromeWindows, ip)
  \/ LoginCheck(1)
  \/ LoginTwoFactor(1)
  \/ LoginReset(1)
  \/ LoginSession(1)
  \/ \E tok \in issued, pw \in Passwords, new \in Passwords, ip \in IPs :
       AuthenticateRequest(1, [NoReq EXCEPT !.op = "changePassword", !.accessToken = tok,
                                            !.password = pw, !.newPassword = new,
                                            !.ipAddress = ip])
  \/ ChangePasswordFind(1)
  \/ ChangePasswordSave(1)
  \/ Tick
SpecChange == InitWith(MaxTimeChange, MaxLogsChange) /\ [][ChangeNext]_vars

\* The risk engine inside login: logins from two browsers and two addresses
\* on the login histories, the log with room for the suspicious_activity
\* entry and the login entry.
InitRiskLogin ==
  \E L \in Histories, t \in {MaxTimeRiskLogin - 2, MaxTimeRiskLogin - 1} :
    InitFrom(MaxTimeRiskLogin, Len(L) + MaxSuspicions + 1, t, L)
RiskLoginNext ==
  \/ \E u \in UserIds, ua \in Desktops, ip \in IPs :
       LoginFrom(1, u, InitialPassword, NoTwoFactor, ua, ip)
  \/ LoginCheck(1)
  \/ LoginTwoFactor(1)
  \/ LoginReset(1)
  \/ LoginSession(1)
  \/ \E u \in UserIds, ua \in Desktops, ip \in IPs : CheckSuspiciousLoginCall(1, u, ua, ip)
  \/ CheckSuspiciousLogin(1)
  \/ Tick
SpecRiskLogin == InitRiskLogin /\ [][RiskLoginNext]_vars

\* Notifications and the security log, one request at a time: the requests
\* that send an email, logins from two addresses, logout, and the update of
\* the location lookup.
NotifyNext ==
  \/ \E e \in Emails : ForgotPassword(1, e)
  \/ \E e \in Emails : ResendVerificationEmail(1, e)
  \/ \E tok \in 1 .. MaxVerifyTokens : VerifyEmail(1, tok)
  \/ \E tok \in 1 .. MaxResetTokens, pw \in Candidates : ResetFind(1, tok, pw)
  \/ ResetUnlock(1)
  \/ ResetSave(1)
  \/ \E u \in UserIds, ip \in IPs :
       LoginFrom(1, u, InitialPassword, NoTwoFactor, ChromeWindows, ip)
  \/ LoginCheck(1)
  \/ LoginFail(1)
  \/ LoginTwoFactor(1)
  \/ LoginReset(1)
  \/ LoginSession(1)
  \/ \E tok \in issued \cup {NoToken} : Logout(1, tok, LogoutUser)
  \/ EnrichLocation
  \/ Tick
SpecNotify == InitWith(MaxTimeNotify, MaxLogs) /\ [][NotifyNext]_vars

\* The trusted flag, one request at a time: logins from two browsers,
\* trustDevice, revokeDevice.  The collection starts with the row that a
\* login of an account beside the modelled ones left for the office Chrome.
InitTrust ==
  InitDevices(MaxTimeDev, 0, 1, <<>>, NoReq,
              upsertDevice({}, OtherUser, parseDeviceInfo(ChromeWindows, OfficeIP)))
TrustNext ==
  \/ \E u \in UserIds, ua \in Desktops :
       LoginFrom(1, u, InitialPassword, NoTwoFactor, ua, OfficeIP)
  \/ LoginCheck(1)
  \/ LoginTwoFactor(1)
  \/ LoginReset(1)
  \/ LoginSession(1)
  \/ \E tok \in issued, id \in DeviceIds :
       AuthenticateDevice(1, "trustDevice", tok, id, NoToken, ChromeWindows, OfficeIP)
  \/ TrustDeviceFind(1)
  \/ TrustDeviceSave(1)
  \/ \E tok \in issued, id \in DeviceIds :
       AuthenticateDevice(1, "revokeDevice", tok, id, NoToken, ChromeWindows, OfficeIP)
  \/ RevokeDeviceFind(1)
  \/ RevokeDeviceSessions(1)
  \/ RevokeDeviceDelete(1)
  \/ Tick
SpecTrust == InitTrust /\ [][TrustNext]_vars

\* The audit trail of sessions and devices, one request at a time, with a
\* security log that takes rows: logins from two browsers, logout, the
\* revocation of sessions and of a device, the TTL index.
AuditNext ==
  \/ \E u \in UserIds, ua \in Desktops :
       LoginFrom(1, u, InitialPassword, NoTwoFactor, ua, OfficeIP)
  \/ LoginCheck(1)
  \/ LoginTwoFactor(1)
  \/ LoginReset(1)
  \/ LoginSession(1)
  \/ \E tok \in issued \cup {NoToken} : Logout(1, tok, LogoutUser)
  \/ \E tok \in issued, sid \in 1 .. MaxSessions :
       Authenticate(1, "revokeSession", tok, NoTwoFactor, sid)
  \/ RevokeSessionFind(1)
  \/ RevokeSessionSave(1)
  \/ \E tok \in issued, cur \in issued \cup {NoToken} :
       AuthenticateDevice(1, "revokeAllSessions", tok, NoDevice, cur, ChromeWindows, OfficeIP)
  \/ RevokeAllSessions(1)
  \/ \E tok \in issued, ua \in Desktops :
       AuthenticateDevice(1, "revokeDevice", tok, generateDeviceId(parseDeviceInfo(ua, OfficeIP)),
                          NoToken, ChromeWindows, OfficeIP)
  \/ RevokeDeviceFind(1)
  \/ RevokeDeviceSessions(1)
  \/ RevokeDeviceDelete(1)
  \/ PurgeExpired
  \/ Tick
SpecAudit == InitWith(MaxTimeAudit, MaxLogsAudit) /\ [][AuditNext]_vars

\* Devices: logins from two desktop browsers at two addresses, and the
\* revocation of devices, one request at a time.
DevSeqNext ==
  \/ \E u \in UserIds, ua \in Desktops, ip \in IPs :
       LoginFrom(1, u, InitialPassword, NoTwoFactor, ua, ip)
  \/ LoginCheck(1)
  \/ LoginTwoFactor(1)
  \/ LoginReset(1)
  \/ LoginSession(1)
  \/ \E tok \in issued, id \in DeviceIds :
       AuthenticateDevice(1, "revokeDevice", tok, id, NoToken, ChromeWindows, OfficeIP)
  \/ \E tok \in issued, cur \in issued \cup {NoToken}, ua \in Desktops, ip \in IPs :
       AuthenticateDevice(1, "revokeAllDevices", tok, NoDevice, cur, ua, ip)
  \/ RevokeDeviceFind(1)
  \/ RevokeDeviceSessions(1)
  \/ RevokeDeviceDelete(1)
  \/ RevokeAllDevicesDelete(1)
  \/ RevokeAllDevicesSessions(1)
  \/ Tick
SpecDevSeq == InitAt(MaxTimeDev) /\ [][DevSeqNext]_vars

\* ------------------------------------------------------------- claims
\* C1: after maxAttempts consecutive wrong-password logins, each run to
\* completion with no successful login or password reset in between, the
\* account is locked (isAccountLocked() is true), and a login that reaches
\* the lock check of a locked account is answered "locked" whatever password
\* it carries.
LockedAfterMaxAttempts ==
  [][\A p \in Procs :
       /\ (/\ pc[p] = "login_fail"
           /\ pc'[p] = "idle"
           /\ recorded'[req[p].email] >= maxAttempts)
          => isAccountLocked(user'[req[p].email], now')
       /\ (/\ pc[p] = "login_check"
           /\ pc'[p] # "login_check"
           /\ isAccountLocked(user[req[p].email], now))
          => resp'[p].status = "locked"]_vars

\* C1 witness: a login with the correct password was answered "locked" on an
\* account locked by maxAttempts failures.
CorrectPasswordRejectedAsLocked ==
  \E p \in Procs :
    /\ req[p].op = "login"
    /\ resp[p].status = "locked"
    /\ comparePassword(user[req[p].email], req[p].password)
    /\ user[req[p].email].loginAttempts = maxAttempts
    /\ isAccountLocked(user[req[p].email], now)

\* C2: with failed logins interleaved, no increment is lost (the stored count
\* is the count an atomic recordFailure would have stored) and the account
\* is locked as soon as the stored count has reached maxAttempts.
NoLostIncrementAndLockedAtThreshold ==
  \A u \in UserIds :
    /\ user[u].loginAttempts = recorded[u]
    /\ user[u].loginAttempts >= maxAttempts => user[u].lockUntil # NoDate /\ user[u].isLocked

\* C3: in every reachable state, with logins interleaved: lockUntil set
\* implies loginAttempts >= maxAttempts, and lockUntil and isLocked are set
\* together and cleared together.
LockFieldsConsistent ==
  \A u \in UserIds :
    /\ user[u].lockUntil # NoDate => user[u].loginAttempts >= maxAttempts
    /\ user[u].lockUntil # NoDate <=> user[u].isLocked

\* The steps that call resetLoginAttempts().
LoginSucceeds == \E p \in Procs : pc[p] = "login_reset" /\ pc'[p] = "login_session"
PasswordIsReset == \E p \in Procs : pc[p] = "reset_unlock" /\ pc'[p] = "reset_save"

\* C4 as stated: a locked account stays locked until the clock passes
\* lockUntil; no step other than a successful login makes isAccountLocked()
\* false before that.
StaysLockedUnlessLogin ==
  [][\A u \in UserIds :
       (isAccountLocked(user[u], now) /\ user[u].lockUntil > now' /\ ~LoginSucceeds)
       => isAccountLocked(user'[u], now')]_vars

\* C4 amended: with requests run one at a time, a locked account stays locked
\* until the clock passes lockUntil unless a login succeeds or a password
\* reset completes in between.
StaysLockedUnlessLoginOrReset ==
  [][\A u \in UserIds :
       (/\ isAccountLocked(user[u], now)
        /\ user[u].lockUntil > now'
        /\ ~LoginSucceeds
        /\ ~PasswordIsReset)
       => /\ isAccountLocked(user'[u], now')
          /\ user'[u].lockUntil = user[u].lockUntil]_vars

\* C4 witness: a password reset was requested for an account after it was
\* locked, and the account is still locked.
LockedAfterForgotPassword ==
  \E p \in Procs :
    /\ req[p].op = "forgotPassword"
    /\ resp[p].status = "forgot_ok"
    /\ isAccountLocked(user[req[p].email], now)
    /\ user[req[p].email].passwordResetExpires - ResetTokenTTL
         >= user[req[p].email].lockUntil - lockTime

\* C6: of two logins that present the same unused backup code and overlap
\* (the second read the user before the first wrote), exactly one is
\* accepted and issued tokens.
ExactlyOneBackupCodeLogin ==
  \A p, q \in Procs :
    (/\ p # q
     /\ req[p].op = "login" /\ req[q].op = "login"
     /\ req[p].email = req[q].email
     /\ req[p].twoFactorToken = req[q].twoFactorToken
     /\ req[p].unused /\ req[q].unused
     /\ req[q].raced
     /\ pc[p] = "idle" /\ pc[q] = "idle")
    => ((resp[p].status = "login_ok") # (resp[q].status = "login_ok"))

\* C7: after a successful refresh with token T no session holds T any more,
\* and the session holds the token that was returned.
RotatedTokenNoLongerResolves ==
  [][\A p \in Procs :
       (pc[p] = "refresh_save" /\ resp'[p].status = "refresh_ok")
       => /\ \A s \in sessions' : s.refreshToken # req[p].refreshToken
          /\ \E s \in sessions' : s.refreshToken = resp'[p].refreshToken /\ s.isActive]_vars

\* C8: of two refresh requests that present the same token and overlap (both
\* looked the session up before either saved), at most one succeeds.
AtMostOneRefreshPerToken ==
  \A p, q \in Procs :
    (/\ p # q
     /\ req[p].op = "refreshToken" /\ req[q].op = "refreshToken"
     /\ req[p].refreshToken = req[q].refreshToken
     /\ req[q].raced)
    => ~(resp[p].status = "refresh_ok" /\ resp[q].status = "refresh_ok")

\* C9: after a logout that carried the refresh token of a session, routed as
\* the router routes it, that session is inactive.
LogoutDeactivatesSession ==
  \A p \in Procs :
    (req[p].op = "logout" /\ resp[p].status = "logout_ok" /\ req[p].refreshToken # NoToken)
    => \A s \in sessions : s.refreshToken = req[p].refreshToken => ~s.isActive

\* C10: a refresh returns a token pair only if, at the time of its lookup, an
\* active session with expiresAt in the future held exactly the presented
\* refresh token.
RefreshOnlyForLiveSession ==
  \A p \in Procs : resp[p].status = "refresh_ok" => req[p].resolved

\* C10 witness: one refresh succeeded on a live session, and another, whose
\* token still verifies, was refused because the session holding it had been
\* revoked.
RefreshAcceptedAndRefused ==
  \E p, q \in Procs :
    /\ resp[p].status = "refresh_ok"
    /\ req[p].resolved
    /\ req[q].op = "refreshToken"
    /\ resp[q].status = "session_invalid"
    /\ \E s \in sessions : s.refreshToken = req[q].refreshToken /\ ~s.isActive

\* The request of p carries a time-based code valid for the stored secret or
\* a member of the stored backup codes.
ValidSecondFactor(p) ==
  LET u == req[p].email
      t == req[p].twoFactorToken
  IN \/ t.kind = "digits6" /\ user[u].twoFactorSecret # NoId /\ t.val = user[u].twoFactorSecret
     \/ /\ t.kind = "hex8"
        /\ user[u].backupCodes.has
        /\ \E i \in 1 .. Len(user[u].backupCodes.codes) : user[u].backupCodes.codes[i] = t.val

\* C11: a login that read the user with twoFactorEnabled and carries no valid
\* second factor ends at the two-factor check, without a token, a session or
\* a device row; tokens, sessions and device rows are made only by the last
\* step of a login, which is reached only through that check.
TwoFactorLoginFailsClosed ==
  [][\A p \in Procs :
       /\ (/\ pc[p] = "login_2fa"
           /\ pc'[p] # "login_2fa"
           /\ doc[p].twoFactorEnabled
           /\ ~ValidSecondFactor(p))
          => /\ pc'[p] = "idle"
             /\ resp'[p].status \in {"requires_2fa", "invalid_2fa", "error_500"}
             /\ resp'[p].refreshToken = NoToken
             /\ UNCHANGED <<sessions, devices, issued>>
       /\ (pc'[p] = "login_reset" /\ pc[p] # "login_reset") => pc[p] = "login_2fa"
       /\ (pc'[p] = "login_session" /\ pc[p] # "login_session") => pc[p] = "login_reset"
       /\ (resp'[p].status = "login_ok" /\ resp[p].status # "login_ok")
          => pc[p] = "login_session"
       /\ (sessions' # sessions \/ devices' # devices \/ issued' # issued)
          => \E q \in Procs : pc[q] = "login_session" /\ pc'[q] = "idle"]_vars

\* C11 witness: for a user with two-factor enabled, one login with the correct
\* password and no code was answered "requires_2fa" and another, with six
\* digits that are no valid code, was refused; the only session is the one of
\* the login before two-factor was enabled.
TwoFactorLoginsRefused ==
  \E p, q \in Procs :
    /\ req[p].op = "login" /\ req[q].op = "login"
    /\ user[req[p].email].twoFactorEnabled
    /\ comparePassword(user[req[p].email], req[p].password)
    /\ comparePassword(user[req[q].email], req[q].password)
    /\ req[p].twoFactorToken = NoTwoFactor
    /\ resp[p].status = "requires_2fa"
    /\ req[q].twoFactorToken = Totp(NoId)
    /\ resp[q].status \in {"invalid_2fa", "error_500"}
    /\ resp[q].refreshToken = NoToken
    /\ Cardinality(sessions) = 1
    /\ Cardinality(devices) = 1

\* C12: twoFactorEnabled becomes true only by the save of a verify2FA whose
\* code is the time-based code of the pending secret stored for the user,
\* and becomes false only by the save of a disable2FA that carried the
\* user's current password and the time-based code of the stored secret; no
\* other step changes it.  It holds with requests run one at a time
\* (SpecTwoFactorSeq) and not with requests interleaved (Spec2FA).
TwoFactorStateMachine ==
  [][\A u \in UserIds :
       /\ (~user[u].twoFactorEnabled /\ user'[u].twoFactorEnabled)
          => \E p \in Procs :
               /\ pc[p] = "verify2FA_save" /\ pc'[p] = "idle"
               /\ req[p].userId = u
               /\ user[u].twoFactorSecret # NoId
               /\ req[p].twoFactorToken = Totp(user[u].twoFactorSecret)
       /\ (user[u].twoFactorEnabled /\ ~user'[u].twoFactorEnabled)
          => \E p \in Procs :
               /\ pc[p] = "disable2FA_save" /\ pc'[p] = "idle"
               /\ req[p].userId = u
               /\ comparePassword(user[u], req[p].password)
               /\ user[u].twoFactorSecret # NoId
               /\ req[p].twoFactorToken = Totp(user[u].twoFactorSecret)]_vars

\* The fingerprint of the device a session was created from.
Fingerprint(s) == generateDeviceId(s.deviceInfo)

\* C13: the bulk update of revokeDevice leaves no session of the user active
\* that was created from the revoked device; success is reported only after
\* it, with no such session active; no step makes an inactive session active.
RevokeDeviceDeactivatesItsSessions ==
  [][\A p \in Procs :
       /\ (pc[p] = "revokeDevice_sessions" /\ pc'[p] = "revokeDevice_delete")
          => \A s \in sessions' :
               (s.userId = req[p].userId /\ Fingerprint(s) = req[p].deviceId) => ~s.isActive
       /\ (resp'[p].status = "revoke_device_ok" /\ pc[p] # "idle")
          => /\ pc[p] = "revokeDevice_delete"
             /\ \A s \in sessions' :
                  (s.userId = req[p].userId /\ Fingerprint(s) = req[p].deviceId) => ~s.isActive
       /\ \A s \in sessions, t \in sessions' : (t.id = s.id /\ ~s.isActive) => ~t.isActive]_vars

\* C13 witness: a device was revoked; a session created from it is inactive
\* and an earlier session from a device at another address is still active.
DeviceRevokedOtherKept ==
  \E p \in Procs, s, t \in sessions :
    /\ req[p].op = "revokeDevice"
    /\ resp[p].status = "revoke_device_ok"
    /\ s.userId = req[p].userId /\ t.userId = req[p].userId
    /\ Fingerprint(s) = req[p].deviceId
    /\ ~s.isActive
    /\ Fingerprint(t) # req[p].deviceId
    /\ t.isActive
    /\ t.id < s.id

\* C14: the bulk update of revokeDevice leaves every session that was
\* created from a device with another fingerprint as it was.
RevokeDeviceKeepsOtherDevices ==
  [][\A p \in Procs :
       (pc[p] = "revokeDevice_sessions" /\ pc'[p] = "revokeDevice_delete")
       => \A s \in sessions : Fingerprint(s) # req[p].deviceId => s \in sessions']_vars

\* C15: when revokeAllDevices reports success, the device rows of the caller
\* are those of the fingerprint of the request, and a session of the caller
\* is active exactly if it was active and was created from that device.
RevokeAllKeepsCurrentDevice ==
  [][\A p \in Procs :
       (pc[p] = "revokeAllDevices_sessions" /\ resp'[p].status = "revoke_all_devices_ok")
       => LET current == generateDeviceId(parseDeviceInfo(req[p].userAgent, req[p].ipAddress)) IN
            /\ \A d \in devices' : d.userId = req[p].userId => d.deviceId = current
            /\ \A s \in sessions : s.userId = req[p].userId =>
                 \E t \in sessions' :
                    /\ t.id = s.id
                    /\ t.isActive = (s.isActive /\ Fingerprint(s) = current)]_vars

\* The case of C16: at least 3 failed logins of the user in the 15 minutes
\* before the call, and the address of the request is not the address of any
\* of the last 10 successful logins of the user.
FailuresAndNewIP(p) ==
  LET u == req[p].userId
      success == {i \in 1 .. Len(logs) :
                    logs[i].userId = u /\ logs[i].action = "login" /\ logs[i].status = "success"}
      last10 == {i \in success : Cardinality({j \in success : j > i}) < 10}
  IN /\ Cardinality({i \in 1 .. Len(logs) :
                       /\ logs[i].userId = u /\ logs[i].action = "login"
                       /\ logs[i].status = "failure"
                       /\ logs[i].createdAt >= now - FailureWindow}) >= 3
     /\ \A i \in last10 : logs[i].ipAddress # req[p].ipAddress

\* One of the last 10 successful logins of the user is not older than 30 days.
HasRecentHistory(p) ==
  \E i \in 1 .. Len(logs) :
    /\ logs[i].userId = req[p].userId /\ logs[i].action = "login"
    /\ logs[i].status = "success"
    /\ logs[i].createdAt >= now - HistoryWindow

SameAnswerForEveryEmail ==
  \A p \in Procs :
    pc[p] = "idle" =>
      /\ req[p].op = "forgotPassword" => resp[p].status = "forgot_ok"
      /\ req[p].op = "resendVerificationEmail" => resp[p].status = "resend_generic"

\* C18: a request whose email send threw is answered as it is answered when
\* the email is sent.
MailFailureKeepsAnswer ==
  \A p \in Procs : resp[p].mail = "throws" => resp[p].status = resp[p].intended

\* C19: a request whose entry was not written to the security log is
\* answered as it is when the entry is written, and the log is the only
\* collection that differs: a login so answered has its session and device.
LogFailureKeepsAnswer ==
  \A p \in Procs :
    resp[p].logWrite \in {"fails", "invalid"} =>
      /\ resp[p].status = resp[p].intended
      /\ resp[p].status # "error_500"
      /\ resp[p].status = "login_ok" =>
           /\ \E s \in sessions :
                /\ s.refreshToken = resp[p].refreshToken /\ s.isActive
                /\ s.userId = req[p].email
           /\ \E d \in devices :
                /\ d.userId = req[p].email
                /\ d.deviceId = generateDeviceId(parseDeviceInfo(req[p].userAgent, req[p].ipAddress))

\* C19 witness: after a request whose entry was written, a login whose
\* entry was not written although the log had room is answered with its
\* tokens and has its session.
LoginAnsweredWithoutLogEntry ==
  \E p \in Procs, s \in sessions :
    /\ req[p].op = "login"
    /\ resp[p].status = "login_ok"
    /\ resp[p].logWrite = "fails"
    /\ s.refreshToken = resp[p].refreshToken /\ s.isActive
    /\ Len(logs) >= 1
    /\ Len(logs) < logCap

\* C20: no step removes an entry of the security log or changes the userId,
\* email, action, status, address, user agent, details or creation time of
\* one; a step changes at most the location of an entry, and with it the
\* time of its last update.
LogAppendOnly ==
  [][/\ Len(logs') >= Len(logs)
     /\ \A i \in 1 .. Len(logs) :
          logs'[i] = [logs[i] EXCEPT !.location = logs'[i].location,
                                     !.updatedAt = logs'[i].updatedAt]]_vars

\* C20 witness: an entry has the location its lookup found and was updated
\* after it was created, next to an entry without a location.
EntryEnriched ==
  \E i, j \in 1 .. Len(logs) :
    /\ logs[i].location # NoLocation
    /\ logs[i].action = "login"
    /\ logs[i].updatedAt > logs[i].createdAt
    /\ logs[j].location = NoLocation

\* The answers of the operations of C21 that completed, and the actions of
\* an entry that records each.
Recorded(status) ==
  CASE status = "login_ok" -> {"login", "session_created"}
    [] status = "logout_ok" -> {"logout"}
    [] status = "revoke_ok" -> {"session_revoked"}
    [] status = "revoke_all_ok" -> {"session_revoked", "all_sessions_revoked"}
    [] status = "trust_device_ok" -> {"device_trusted", "profile_update"}
    [] status = "revoke_device_ok" -> {"device_revoked", "session_revoked"}
    [] status = "revoke_all_devices_ok" -> {"all_devices_revoked", "session_revoked"}
    [] OTHER -> {}

\* C21: an operation that completed, whose write to the security log the
\* database did not refuse, has left an entry that records it: the last one.
CompletedOperationsAreLogged ==
  \A p \in Procs :
    (Recorded(resp[p].status) # {} /\ resp[p].logWrite # "fails")
    => /\ logs # <<>>
       /\ logs[Len(logs)].action \in Recorded(resp[p].status)
       /\ logs[Len(logs)].status = "success"

ScoreWithinHundred ==
  \A p \in Procs : resp[p].strength.score \in 0 .. 100


\* ------------------------------------------------------------------ C23
\* C23: register, resetPassword and changePassword reject a candidate whose
\* score is in the weak band, and resetPassword and changePassword reject a
\* candidate equal to the current password: a step that answers with such a
\* rejection leaves the users (hash, reset token and expiry, lockout
\* fields), the sessions and the registered accounts as they were, and a
\* step that stores a password stores one that is not weak and, for a reset
\* or a change, differs from the one stored before.
RejectedPasswordsChangeNothing ==
  [][\A p \in Procs :
       LET weak(pw) == score(requirements(pw)) < 40 IN
       /\ (pc'[p] = "idle" /\ resp'[p].status \in {"weak_password", "same_password"})
            => UNCHANGED <<user, sessions, registered>>
       /\ (pc[p] = "reset_save" /\ resp'[p].status = "reset_ok")
            => /\ ~weak(req[p].password)
               /\ user[req[p].email].password # hash(req[p].password)
               /\ user'[req[p].email].password = hash(req[p].password)
       /\ (pc[p] = "changePassword_save" /\ resp'[p].status = "change_ok")
            => /\ ~weak(req[p].newPassword)
               /\ user[req[p].userId].password # hash(req[p].newPassword)
               /\ user'[req[p].userId].password = hash(req[p].newPassword)
       /\ \A r \in registered' \ registered :
            \E pw \in Candidates : r.password = hash(pw) /\ ~weak(pw)
  ]_vars

\* resetPassword refused the current password as the new one, and the reset
\* token of the request is still the stored one.
ResetRefusedSamePassword ==
  \E p \in Procs :
    /\ pc[p] = "idle"
    /\ req[p].op = "resetPassword"
    /\ resp[p].status = "same_password"
    /\ user[req[p].email].passwordResetToken = req[p].resetToken
    /\ user[req[p].email].password = hash(req[p].password)

\* ------------------------------------------------------------------ C25
\* C25: a password change or reset never stores a password the user had
\* before: after A -> B, going back to A is refused.
NoPasswordReuse ==
  [][\A u \in UserIds :
       user'[u].password # user[u].password => user'[u].password \notin used[u]]_vars

\* ------------------------------------------------------------------ C26
\* C26: a device row is untrusted when it is created, and its flag changes
\* only from false to true and only in the step of a trustDevice request of
\* the row's owner for that device; a login from a device that has a row
\* leaves the flag as it was.
TrustedOnlyByTrustDevice ==
  [][\A d \in devices' :
       LET old == {o \in devices : o.userId = d.userId /\ o.deviceId = d.deviceId} IN
       /\ old = {} => ~d.isTrusted
       /\ \A o \in old :
            o.isTrusted # d.isTrusted =>
              /\ d.isTrusted
              /\ \E p \in Procs :
                   /\ pc[p] = "trustDevice_save"
                   /\ req[p].userId = d.userId
                   /\ req[p].deviceId = d.deviceId
                   /\ resp'[p].status = "trust_device_ok"
  ]_vars

\* A login from a device its owner had trusted has completed and the row is
\* still trusted, while the row of the other account for the same device is
\* not.
TrustedDeviceLoggedInAgain ==
  \E p \in Procs, d \in devices :
    /\ pc[p] = "idle"
    /\ req[p].op = "login"
    /\ resp[p].status = "login_ok"
    /\ d.userId = req[p].email
    /\ d.deviceId = generateDeviceId(parseDeviceInfo(req[p].userAgent, req[p].ipAddress))
    /\ d.isTrusted
    /\ \E o \in devices : o.userId = OtherUser /\ o.deviceId = d.deviceId /\ ~o.isTrusted

\* ------------------------------------------------------------------ C27
\* C27: after a logout request that carries a valid access token in the
\* Authorization header and no refresh token, no session of the user of
\* that token is active.
LogoutWithoutTokenEndsAllSessions ==
  \A p \in Procs :
    ( /\ pc[p] = "idle"
      /\ req[p].op = "logout"
      /\ resp[p].status = "logout_ok"
      /\ req[p].refreshToken = NoToken
      /\ verifyAccessToken(req[p].accessToken, now) )
    => \A s \in sessions : s.userId = req[p].accessToken.userId => ~s.isActive

\* ------------------------------------------------------------------ C28
\* C28: a failed login recorded while the stored lock has run out leaves
\* loginAttempts 1 with lockUntil and isLocked cleared, and with failures
\* processed in any interleaving the stored count after each failure is the
\* number of failures recorded since the lock ran out.
FailureAfterExpiryRestartsCount ==
  [][\A p \in Procs :
       (pc[p] = "login_fail" /\ pc'[p] = "idle") =>
         LET u == req[p].email IN
         /\ (user[u].lockUntil # NoDate /\ user[u].lockUntil < now)
              => /\ user'[u].loginAttempts = 1
                 /\ user'[u].lockUntil = NoDate
                 /\ ~user'[u].isLocked
         /\ user'[u].loginAttempts = recorded'[u]
  ]_vars

\* ------------------------------------------------------------------ C29
\* C29: with requests run one at a time, when a login or a password reset
\* has been answered with success the stored loginAttempts is 0 and lockUntil
\* and isLocked are cleared; the login that follows a password reset with
\* the new password loads a record that is not locked and that the password
\* matches, and a login with such a record goes on past the password check.
SuccessClearsLockout ==
  [][\A p \in Procs :
       /\ (pc'[p] = "idle" /\ resp'[p].status \in {"login_ok", "reset_ok"})
            => LET u == req'[p].email IN
               /\ user'[u].loginAttempts = 0
               /\ user'[u].lockUntil = NoDate
               /\ ~user'[u].isLocked
       /\ ( /\ pc[p] = "idle"
            /\ resp[p].status = "reset_ok"
            /\ pc'[p] = "login_check"
            /\ req'[p].email = req[p].email
            /\ req'[p].password = req[p].password )
            => /\ ~isAccountLocked(doc'[p], now')
               /\ comparePassword(doc'[p], req'[p].password)
       /\ ( /\ pc[p] = "login_check"
            /\ pc'[p] # "login_check"
            /\ ~isAccountLocked(doc[p], now)
            /\ comparePassword(doc[p], req[p].password) )
            => pc'[p] = "login_2fa"
  ]_vars

\* resetPassword has called resetLoginAttempts() for an account that was
\* locked when the request loaded it: the stored record is unlocked.
ResetUnlockedLockedAccount ==
  \E p \in Procs :
    /\ pc[p] = "reset_save"
    /\ isAccountLocked(doc[p], now)
    /\ doc[p].loginAttempts >= maxAttempts
    /\ user[req[p].email].loginAttempts = 0
    /\ ~isAccountLocked(user[req[p].email], now)

\* ------------------------------------------------------------------ C30
\* C30: with requests run one at a time, while lockUntil of a user is set
\* and in the future no step issues a token or creates or rotates a session
\* for that user, a login of that user is answered "locked" whatever the
\* password and leaves loginAttempts and lockUntil as they were, a refresh
\* with a token of that user and a request with an access token of that
\* user are rejected; and isAccountLocked() is true exactly when lockUntil
\* is set and in the future.
LockedAccountIsShutOut ==
  [][\A u \in UserIds :
       /\ isAccountLocked(user[u], now) <=> (user[u].lockUntil # NoDate /\ user[u].lockUntil > now)
       /\ (user[u].lockUntil # NoDate /\ user[u].lockUntil > now) =>
            /\ \A t \in issued' \ issued : t.userId # u
            /\ \A s \in sessions' :
                 s.userId = u => \E o \in sessions : o.id = s.id /\ o.refreshToken = s.refreshToken
            /\ \A p \in Procs :
                 /\ (req[p].op = "login" /\ req[p].email = u /\ pc[p] # "idle" /\ pc'[p] # pc[p])
                      => /\ pc'[p] = "idle"
                         /\ resp'[p].status = "locked"
                         /\ resp'[p].refreshToken = NoToken
                         /\ user'[u].loginAttempts = user[u].loginAttempts
                         /\ user'[u].lockUntil = user[u].lockUntil
                 /\ (pc[p] = "refresh_user" /\ req[p].userId = u /\ pc'[p] # pc[p])
                      => /\ pc'[p] = "idle"
                         /\ resp'[p].status = "locked"
                         /\ resp'[p].refreshToken = NoToken
                 /\ ( /\ pc[p] = "idle"
                      /\ req'[p].op = "revokeSession"
                      /\ req'[p].accessToken.userId = u
                      /\ req'[p] # req[p] )
                      => /\ pc'[p] = "idle"
                         /\ resp'[p].status \in {"locked", "unauthorized"}
  ]_vars

\* A login with the correct password has been answered "locked" and the
\* account is still locked, with its count and its session as they were.
CorrectPasswordShutOut ==
  \E p \in Procs :
    /\ pc[p] = "idle"
    /\ req[p].op = "login"
    /\ resp[p].status = "locked"
    /\ comparePassword(user[req[p].email], req[p].password)
    /\ user[req[p].email].lockUntil > now
    /\ user[req[p].email].loginAttempts = maxAttempts
    /\ \E s \in sessions : s.userId = req[p].email /\ s.isActive

\* ------------------------------------------------------------------ C31
\* C31: a login that found the account locked or with a lock that has run
\* out is scored with the 20 of the recent lockout: the score the login
\* computes is the score of the record as the login found it.
RecentLockoutIsScored ==
  [][\A p \in Procs :
       ( /\ pc[p] = "login_session"
         /\ resp'[p].status = "login_ok"
         /\ (doc[p].isLocked \/ doc[p].lockUntil # NoDate) )
       => LET u == req[p].email IN
          riskScore(logs, selectDefault(user[u]), u, req[p].userAgent, req[p].ipAddress, now)
            = riskScore(logs, doc[p], u, req[p].userAgent, req[p].ipAddress, now)
  ]_vars

\* ------------------------------------------------------------------ C32
\* C32: checkSuspiciousLogin issues the create of one suspicious_activity
\* entry, with status warning and the reasons joined in its details, when
\* the score is at least 50, and the entry is then the one row the log
\* gains; below 50 it issues none and the log is as it was.  A login gains
\* at most one such row, none below 50, and is answered with its tokens and
\* has its session whatever the score (unless the token it signs is the
\* refresh token of a stored session).
SuspiciousLoginIsLoggedOnce ==
  [][\A p \in Procs :
       /\ (pc[p] = "checkSuspiciousLogin" /\ pc'[p] = "idle") =>
            LET u == req[p].userId
                ua == req[p].userAgent
                ip == req[p].ipAddress
                total == riskScore(logs, selectDefault(user[u]), u, ua, ip, now)
                n == Len(logs)
            IN
            /\ total < 50 => (logs' = logs /\ resp'[p].logWrite = "none")
            /\ total >= 50 =>
                 /\ resp'[p].logWrite \in {"ok", "fails"}
                 /\ resp'[p].logWrite = "fails" => logs' = logs
                 /\ resp'[p].logWrite = "ok" =>
                      /\ Len(logs') = n + 1
                      /\ SubSeq(logs', 1, n) = logs
                      /\ logs'[n + 1].userId = u
                      /\ logs'[n + 1].action = "suspicious_activity"
                      /\ logs'[n + 1].status = "warning"
                      /\ logs'[n + 1].details =
                           "Suspicious login detected: "
                             \o join(reasons(logs, selectDefault(user[u]), u, ua, ip, now))
       /\ (pc[p] = "login_session" /\ pc'[p] = "idle") =>
            LET u == req[p].email
                total == riskScore(logs, selectDefault(user[u]), u,
                                   req[p].userAgent, req[p].ipAddress, now)
                added == {i \in Len(logs) + 1 .. Len(logs') : logs'[i].action = "suspicious_activity"}
            IN
            /\ Cardinality(added) <= 1
            /\ total < 50 => added = {}
            /\ (\A s \in sessions : s.refreshToken # generateRefreshToken(u, now)) =>
                 /\ resp'[p].status = "login_ok"
                 /\ resp'[p].refreshToken = generateRefreshToken(u, now)
                 /\ \E s \in sessions' \ sessions :
                      s.refreshToken = resp'[p].refreshToken /\ s.isActive
  ]_vars

\* A login from the office after three failures, of a user whose successful
\* logins came from home, has been answered with its tokens, and the log
\* holds the suspicious_activity entry with the two reasons.
SuspiciousLoginAnswered ==
  \E p \in Procs :
    /\ pc[p] = "idle"
    /\ req[p].op = "login"
    /\ resp[p].status = "login_ok"
    /\ resp[p].refreshToken # NoToken
    /\ \E i \in 1 .. Len(logs) :
         /\ logs[i].action = "suspicious_activity"
         /\ logs[i].status = "warning"
         /\ logs[i].createdAt = now
         /\ logs[i].details =
              "Suspicious login detected: Multiple failed login attempts in short time, Login from new IP address"

\* ------------------------------------------------------------------ C33
\* C33: the score of a password change is 40 if the address of the request
\* is not among the addresses of the user's successful login and
\* password-change entries of the last 7 days, plus 30 if the user has more
\* than one password change in the last 24 hours, failed attempts not
\* counted.
PasswordChangeScoreAsSpecified ==
  [][\A p \in Procs :
       (pc[p] = "changePassword_save" /\ pc'[p] = "idle") =>
         LET u == req[p].userId
             ip == req[p].ipAddress
             known == {logs[i].ipAddress : i \in
                         {j \in 1 .. Len(logs) :
                            /\ logs[j].userId = u
                            /\ logs[j].action \in {"login", "password_change"}
                            /\ logs[j].status = "success"
                            /\ logs[j].createdAt >= now - ActivityWindow}}
             changes == {j \in 1 .. Len(logs) :
                           /\ logs[j].userId = u
                           /\ logs[j].action = "password_change"
                           /\ logs[j].status = "success"
                           /\ logs[j].createdAt >= now - ChangeWindow}
         IN riskScorePasswordChange(logs, u, ip, now)
              = B(ip \notin known, 40) + B(Cardinality(changes) > 1, 30)
  ]_vars

\* ------------------------------------------------------------------ C34
\* C34: no step of setup2FA changes twoFactorEnabled; a setup2FA request for
\* a user without 2FA stores a secret never generated before and ten new
\* backup codes in place of the pending ones; a setup2FA request for a user
\* with 2FA is refused and changes nothing of the user.
SetupLeavesTwoFactorFlag ==
  [][\A p \in Procs :
       LET u == req[p].userId IN
       /\ (pc[p] \in {"setup2FA", "setup2FA_save"} /\ pc'[p] # pc[p])
            => user'[u].twoFactorEnabled = user[u].twoFactorEnabled
       /\ (pc[p] = "setup2FA" /\ pc'[p] # pc[p] /\ user[u].twoFactorEnabled)
            => /\ pc'[p] = "idle"
               /\ resp'[p].status = "already_enabled"
               /\ user' = user
       /\ (pc[p] = "setup2FA" /\ pc'[p] # pc[p] /\ ~user[u].twoFactorEnabled)
            => pc'[p] = "setup2FA_save"
       /\ (pc[p] = "setup2FA_save" /\ pc'[p] # pc[p])
            => /\ resp'[p].status = "setup2FA_ok"
               /\ user'[u].twoFactorSecret # NoId
               /\ user'[u].twoFactorSecret # user[u].twoFactorSecret
               /\ user'[u].twoFactorSecret = nextSecret - 1
               /\ user'[u].backupCodes.has
               /\ Len(user'[u].backupCodes.codes) = 10
               /\ \A i, j \in 1 .. 10 :
                    /\ i # j => user'[u].backupCodes.codes[i] # user'[u].backupCodes.codes[j]
                    /\ user[u].backupCodes.has /\ j <= Len(user[u].backupCodes.codes)
                         => user'[u].backupCodes.codes[i] # user[u].backupCodes.codes[j]
  ]_vars

\* A second setup2FA has replaced the pending secret and codes of the first;
\* 2FA is still off.
PendingSecretReplaced ==
  \E p \in Procs :
    /\ pc[p] = "idle"
    /\ req[p].op = "setup2FA"
    /\ resp[p].status = "setup2FA_ok"
    /\ user[req[p].userId].twoFactorSecret = 2
    /\ user[req[p].userId].backupCodes = Array(BackupCodesOf(2))
    /\ ~user[req[p].userId].twoFactorEnabled

\* ------------------------------------------------------------------ C35
\* C35: whenever twoFactorEnabled is true the stored secret is present and
\* is the secret the enabling verify2FA validated its code against, with
\* setup2FA and verify2FA requests in any interleaving: the step that
\* enables 2FA leaves stored the secret its request verified, and while 2FA
\* stays enabled the secret stays.
EnabledSecretIsVerifiedSecret ==
  [][\A u \in UserIds :
       /\ user'[u].twoFactorEnabled => user'[u].twoFactorSecret # NoId
       /\ (~user[u].twoFactorEnabled /\ user'[u].twoFactorEnabled) =>
            \E p \in Procs :
              /\ pc[p] = "verify2FA_save"
              /\ pc'[p] = "idle"
              /\ req[p].userId = u
              /\ totpVerify(doc[p].twoFactorSecret, req[p].twoFactorToken) = "valid"
              /\ user'[u].twoFactorSecret = doc[p].twoFactorSecret
       /\ (user[u].twoFactorEnabled /\ user'[u].twoFactorEnabled) =>
            user'[u].twoFactorSecret = user[u].twoFactorSecret
  ]_vars

\* ------------------------------------------------------------------ C36
\* C36: a reset token authorises at most one reset, with resetPassword
\* requests in any interleaving: a resetPassword that goes on to write
\* presents the stored token before its expiry, and the save of a
\* successful reset finds that token still stored and clears it and its
\* expiry.
ResetTokenUsedOnce ==
  [][\A p \in Procs :
       /\ (pc[p] = "idle" /\ pc'[p] = "reset_unlock") =>
            LET u == req'[p].email IN
            /\ user[u].passwordResetToken = req'[p].resetToken
            /\ user[u].passwordResetExpires > now
       /\ (pc[p] = "reset_save" /\ pc'[p] = "idle" /\ resp'[p].status = "reset_ok") =>
            LET u == req[p].email IN
            /\ user[u].passwordResetToken = req[p].resetToken
            /\ user'[u].passwordResetToken = NoId
            /\ user'[u].passwordResetExpires = NoDate
  ]_vars

\* ------------------------------------------------------------------ C37
\* C37: isActive is monotone: no step, with refreshes, logouts and the
\* revocations of sessions and devices in any interleaving, turns a session row whose isActive is
\* false into a row of the same id whose isActive is true.
DeactivatedSessionsStayInactive ==
  [][\A s \in sessions : ~s.isActive =>
       \A s2 \in sessions' : s2.id = s.id => ~s2.isActive]_vars

\* A refresh that had loaded the session wrote its new token and
\* lastActivity after the session had been revoked.
RevokedSessionRefreshed ==
  \E s \in sessions, i \in 1 .. Len(logs), p \in Procs :
    /\ s.id = 1
    /\ ~s.isActive
    /\ logs[i].action = "session_revoked"
    /\ logs[i].createdAt < s.lastActivity
    /\ pc[p] = "idle"
    /\ req[p].op = "refreshToken"
    /\ resp[p].status = "refresh_ok"
    /\ resp[p].refreshToken = s.refreshToken

\* ------------------------------------------------------------------ C38
\* C38: expiresAt is fixed at creation: a row that login creates expires
\* 7 days after that login, no step changes the expiresAt of a row, and a
\* refresh goes on to issue tokens only for a session it found before its
\* expiresAt, however often the token was rotated.
ExpiryFixedAtCreation ==
  [][/\ \A s \in sessions, s2 \in sessions' : s2.id = s.id => s2.expiresAt = s.expiresAt
     /\ \A s2 \in sessions' :
          (\A s \in sessions : s.id # s2.id) => s2.expiresAt = now + SessionDays
     /\ \A p \in Procs :
          (pc[p] = "idle" /\ pc'[p] = "refresh_user") =>
            \E s \in sessions : s.id = sdoc'[p].id /\ now < s.expiresAt
     /\ \A p \in Procs :
          (pc[p] = "refresh_save" /\ resp'[p].status = "refresh_ok") =>
            \E s \in sessions' : s.id = sdoc[p].id /\ s.expiresAt = sdoc[p].expiresAt
  ]_vars

\* A session whose token was rotated reached its expiresAt; the refresh
\* with its latest token, which the JWT check still accepts, was refused.
RotatedSessionExpired ==
  \E p \in Procs, s \in sessions :
    /\ pc[p] = "idle"
    /\ req[p].op = "refreshToken"
    /\ resp[p].status = "session_invalid"
    /\ s.refreshToken = req[p].refreshToken
    /\ s.isActive
    /\ s.expiresAt <= now
    /\ s.lastActivity > s.expiresAt - SessionDays
    /\ s.refreshToken.iat > Sec(s.expiresAt - SessionDays)
    /\ verifyRefreshToken(req[p].refreshToken, now)

\* ------------------------------------------------------------------ C39
\* C39: the operations on sessions and devices of one user leave the rows
\* of every other user as they are, and a request that addresses a session
\* id or a device id of which the requester owns no row is answered with
\* not-found and changes nothing.
OtherUsersRowsUntouched ==
  [][/\ \A p \in Procs : pc[p] # "idle" =>
          /\ {s \in sessions' : s.userId # req[p].userId} =
               {s \in sessions : s.userId # req[p].userId}
          /\ {d \in devices' : d.userId # req[p].userId} =
               {d \in devices : d.userId # req[p].userId}
     /\ \A p \in Procs :
          (/\ pc[p] = "revokeSession"
           /\ pc'[p] # pc[p]
           /\ ~\E s \in sessions : s.id = req[p].sessionId /\ s.userId = req[p].userId) =>
            /\ resp'[p].status = "session_not_found"
            /\ sessions' = sessions
     /\ \A p \in Procs :
          (/\ pc[p] \in {"trustDevice", "revokeDevice"}
           /\ pc'[p] # pc[p]
           /\ ~\E d \in devices : d.deviceId = req[p].deviceId /\ d.userId = req[p].userId) =>
            /\ resp'[p].status = "device_not_found"
            /\ devices' = devices
            /\ sessions' = sessions
  ]_vars

\* The user revoked all devices from another browser, which deleted the
\* own device row and ended the own session, and then addressed the
\* session of the other user: not found, and the rows of the other user
\* are as they were.
ForeignSessionNotFound ==
  /\ pc[1] = "idle"
  /\ req[1].op = "revokeSession"
  /\ resp[1].status = "session_not_found"
  /\ \E s \in sessions : s.id = req[1].sessionId /\ s.userId = OtherUser /\ s.isActive
  /\ \A s \in sessions : s.userId # OtherUser => ~s.isActive
  /\ \A d \in devices : d.userId = OtherUser
  /\ Cardinality(devices) = 2

\* ------------------------------------------------------------------ C40
\* What authenticate answers to a request that carries the access token tok.
AuthenticateDecision(tok) ==
  IF ~verifyAccessToken(tok, now) THEN "unauthorized"
  ELSE IF isAccountLocked(selectDefault(user[tok.userId]), now) THEN "locked"
  ELSE "next"

\* C40: the decision of authenticate does not depend on the Session rows: a
\* step that leaves the users, the clock and the tokens issued as they are
\* (a revocation, a logout) leaves the decision for every access token as
\* it is, and a request is answered by that decision.
AuthenticateIgnoresSessions ==
  [][/\ (user' = user /\ now' = now /\ issued' = issued) =>
          \A tok \in issued : AuthenticateDecision(tok)' = AuthenticateDecision(tok)
     /\ \A p \in Procs :
          (/\ pc[p] = "idle"
           /\ req'[p] # req[p]
           /\ req'[p].op \notin {"login", "refreshToken", "logout"}) =>
            LET d == AuthenticateDecision(req'[p].accessToken) IN
              IF d = "next"
              THEN pc'[p] = req'[p].op
              ELSE pc'[p] = "idle" /\ resp'[p].status = d
  ]_vars

\* A request with a valid access token passed authenticate although every
\* session of its user had been revoked.
AcceptedWithoutActiveSession ==
  /\ pc[1] = "revokeSession"
  /\ \E s \in sessions : s.userId = req[1].userId
  /\ \A s \in sessions : s.userId = req[1].userId => ~s.isActive

====
